---------------------------- MODULE Spec2Model ----------------------------
(***************************************************************************)
(* Verification model of the video rating survey application:              *)
(*   - the video sampler            (src/pages/videoplayer.py)             *)
(*   - the rating validator         (src/pages/videoplayer.py,             *)
(*                                   src/utils/config_loader.py)           *)
(*   - the persistence gateway      (src/utils/data_persistence.py,        *)
(*                                   src/utils/gsheets_manager.py)         *)
(*   - the rating loop of a session (src/pages/videoplayer.py, login.py)   *)
(*                                                                         *)
(* Python strings are modelled as sequences of tokens, so that replace,    *)
(* split, lower and concatenation are computed rather than assumed.        *)
(* Python None and the number 0 are both written 0 where the code only     *)
(* tests truthiness (number_of_videos, target_count, level_target).        *)
(***************************************************************************)
EXTENDS Integers, Sequences, FiniteSets, TLC

VARIABLES
    \* ---- sampler call (stratified_sample_videos) ----
    sm_pc,              \* "ready" | "done"
    sm_videos,          \* argument videos_to_rate
    sm_metadata,        \* argument df_metadata
    sm_number,          \* argument number_of_videos (0 = None)
    sm_number_given,    \* FALSE when the settings hold no number_of_videos (None)
    sm_strat,           \* argument strat_config
    sm_selected,        \* returned list
    \* ---- rating validation (load_rating_scales, _validate_ratings) ----
    va_pc,              \* "start" | "loaded" | "validated"
    va_yaml,            \* parsed content of the rating scales file
    va_session,         \* st.session_state: rating_scales, group_requirements, required_scales
    va_values,          \* submitted scale_values
    va_result,          \* outcome of _validate_ratings
    \* ---- configuration and the two stores ----
    config,             \* st.session_state.config['settings']
    user_ratings,       \* local directory user_ratings/
    user_data,          \* local directory user_data/
    ws_ratings,         \* worksheet "ratings"
    ws_users,           \* worksheet "users"
    \* ---- calls of the persistence gateway ----
    pe_calls,           \* number of calls made
    pe_session,         \* st.session_state: whether device_info and consent_given are set
    pe_last,            \* the last call: arguments, injected faults, outcome
    \* ---- one browser session (st.session_state) ----
    ss_page,                \* page
    ss_user_id,             \* user.user_id
    ss_video_initialized,   \* "absent" while the key is not in the session state
    ss_videos_to_rate,
    ss_current_video_index,
    ss_confirm_back,
    ss_session_ratings,
    ss_handler,             \* what the last script run did: initialisation or Submit
    ss_user_id_confirmed,   \* user_id_confirmed
    ss_age,                 \* user.data['age'] (0 while the question is unanswered)
    ss_submitted,           \* ratings saved since videos_to_rate was sampled
    \* ---- one call of User.generate_random_user_id ----
    gn_pc,              \* "loop" | "returned" | "raised"
    gn_existing,        \* argument existing_user_ids
    gn_attempts,        \* attempts
    gn_user_id,         \* self.user_id
    gn_returned,        \* the value returned
    \* ---- registration of new participants, one browser session each ----
    rg_pc,              \* per session: "form" | "confirm" | "saved"
    rg_user_id,         \* per session: user.user_id
    \* ---- the practice trials of the session (st.session_state) ----
    fa_initialized,     \* familiarization_initialized, "absent" while not set
    fa_videos,          \* familiarization_videos
    fa_index,           \* familiarization_video_index
    fa_confirm_back,    \* confirm_back_famil
    fa_confirm_back_pre, \* confirm_back_pre_famil
    fa_result,          \* outcome of _validate_familiarization_ratings
    \* ---- two browser sessions in the rating loop at the same time ----
    cc_pc,              \* per session: "entered" | "rating" | "completion"
    cc_videos,          \* per session: videos_to_rate
    cc_index,           \* per session: current_video_index
    cc_last,            \* the last script run: session, handler, video, outcome
    \* ---- two calls of append_rating_to_gsheets at the same time ----
    ap_pc,              \* per call: "start" | "read" | "header" | "done"
    ap_record,          \* per call: rating_data_with_timestamp
    ap_existing         \* per call: existing_data as read by get_all_values

smVars == <<sm_pc, sm_videos, sm_metadata, sm_number, sm_number_given, sm_strat,
            sm_selected>>
vaVars == <<va_pc, va_yaml, va_session, va_values, va_result>>

stVars == <<config, user_ratings, user_data, ws_ratings, ws_users>>
peVars == <<pe_calls, pe_session, pe_last>>

ssForm == <<ss_user_id_confirmed, ss_age>>

ssVars == <<ss_page, ss_user_id, ss_video_initialized, ss_videos_to_rate,
            ss_current_video_index, ss_confirm_back, ss_session_ratings, ss_handler,
            ss_submitted, ssForm>>

gnVars == <<gn_pc, gn_existing, gn_attempts, gn_user_id, gn_returned>>
rgVars == <<rg_pc, rg_user_id>>
idVars == <<gnVars, rgVars>>

faState == <<fa_initialized, fa_videos, fa_index, fa_confirm_back, fa_confirm_back_pre>>
faVars == <<faState, fa_result>>
ccVars == <<cc_pc, cc_videos, cc_index, cc_last>>
apVars == <<ap_pc, ap_record, ap_existing>>
coVars == <<ccVars, apVars>>
exVars == <<faVars, coVars>>

vars == <<smVars, vaVars, stVars, peVars, ssVars, idVars, exVars>>

-----------------------------------------------------------------------------
(* Python string and list helpers                                          *)

\* str.lower() on one token
LowerToken(t) ==
    CASE t = ".MP4" -> ".mp4"
      [] t = "AB12" -> "ab12"
      [] t = "CD34" -> "cd34"
      [] t = "Win"  -> "win"
      [] t = "Loss" -> "loss"
      [] t = "or"   -> "or"
      [] t = "Joy"  -> "joy"
      [] t = "Fear" -> "fear"
      [] t = "Note" -> "note"
      [] OTHER      -> t

\* str.lower()
Lower(s) == [i \in 1..Len(s) |-> LowerToken(s[i])]

\* str.replace(tok, '')
Remove(s, tok) == SelectSeq(s, LAMBDA t : t # tok)

\* str.replace(old, new) for single tokens
ReplaceToken(s, old, new) == [i \in 1..Len(s) |-> IF s[i] = old THEN new ELSE s[i]]

\* the elements of a list
Range(s) == {s[i] : i \in 1..Len(s)}

\* list[:n]
Take(s, n) == SubSeq(s, 1, IF n < Len(s) THEN n ELSE Len(s))

Min(a, b) == IF a < b THEN a ELSE b

\* all orders in which n distinct positions of s can be drawn
\* (random.sample / DataFrame.sample without replacement)
Samples(s, n) ==
    { [i \in 1..n |-> s[f[i]]] :
        f \in { g \in [1..n -> 1..Len(s)] :
                  \A i, j \in 1..n : i # j => g[i] # g[j] } }

\* random.shuffle
Shuffles(s) == Samples(s, Len(s))

\* Python round(): round half to even, for the rational num/den >= 0
RoundHalfEven(num, den) ==
    LET q == num \div den
        r == num % den
    IN  IF 2 * r < den THEN q
        ELSE IF 2 * r > den THEN q + 1
        ELSE IF q % 2 = 0 THEN q ELSE q + 1

-----------------------------------------------------------------------------
(* Video sampler: src/pages/videoplayer.py                                 *)

\* df['id'].tolist()
IdList(df) == [i \in 1..Len(df) |-> df[i].id]

\* df[df[col].isin(values)]
RowsIn(df, col, values) == SelectSeq(df, LAMBDA r : r[col] \in values)

\* "df['id'].tolist()[:target_count] if target_count else df['id'].tolist()"
Unfiltered(df, target_count) ==
    IF target_count # 0 THEN Take(IdList(df), target_count) ELSE IdList(df)

\* all concatenations a \o b
Concat(A, B) == { a \o b : a \in A, b \in B }

\* level_target of one level (lines 135-140). Proportions are held in quarters
\* (2 = 0.5), all exactly representable floats, so target_count * proportion
\* is exact. A level_target of 0 is passed on as it is, and the callee reads
\* 0 as "no target".
LevelTarget(target_count, proportion, available) ==
    LET level_target == IF target_count # 0
                        THEN RoundHalfEven(target_count * proportion, 4) ELSE 0
    IN  IF level_target # 0 /\ available < level_target
        THEN available ELSE level_target

RECURSIVE StratifiedSampleRecursive(_, _, _, _, _)
RECURSIVE StratumLoop(_, _, _, _, _, _, _)

\* the loop "for i, level_value in enumerate(levels_list)" from index i on;
\* the result is the set of lists the loop can append
StratumLoop(df_filtered, columns, strat_config, target_count, level, i, var_config) ==
    IF i > Len(var_config.levels) THEN { <<>> }
    ELSE
      LET level_df == RowsIn(df_filtered, var_config.variable, {var_config.levels[i]})
          rest == StratumLoop(df_filtered, columns, strat_config, target_count,
                              level, i + 1, var_config)
      IN  IF Len(level_df) = 0 THEN rest
          ELSE Concat(
                 StratifiedSampleRecursive(level_df, columns, strat_config,
                     LevelTarget(target_count, var_config.proportions[i], Len(level_df)),
                     level + 1),
                 rest)

\* _stratified_sample_recursive: the set of lists it can return.
\* `level` counts from 1 here (0 in the code).
StratifiedSampleRecursive(df, columns, strat_config, target_count, level) ==
    IF level > Len(strat_config)
    THEN IF target_count # 0 /\ target_count < Len(df)
         THEN Samples(IdList(df), target_count)
         ELSE { IdList(df) }
    ELSE
      LET var_config == strat_config[level]
      IN  IF var_config.variable = "" \/ var_config.levels = <<>>
               \/ var_config.proportions = <<>>
          THEN { Unfiltered(df, target_count) }
          ELSE IF Len(var_config.levels) # Len(var_config.proportions)
          THEN { Unfiltered(df, target_count) }
          ELSE IF var_config.variable \notin columns
          THEN { Unfiltered(df, target_count) }
          ELSE
            LET df_filtered == RowsIn(df, var_config.variable, Range(var_config.levels))
            IN  IF Len(df_filtered) = 0
                THEN { Unfiltered(df, target_count) }
                ELSE StratumLoop(df_filtered, columns, strat_config, target_count,
                                 level, 1, var_config)

\* v.replace('.mp4', '')
EventId(v) == Remove(v, ".mp4")

\* stratified_sample_videos: the set of lists it can return
StratifiedSampleVideos(videos_to_rate, df_metadata, number_of_videos, strat_config) ==
    IF Len(strat_config) = 0
    THEN IF number_of_videos # 0 /\ number_of_videos < Len(videos_to_rate)
         THEN UNION { Shuffles(s) : s \in Samples(videos_to_rate, number_of_videos) }
         ELSE Shuffles(videos_to_rate)
    ELSE
      LET event_ids == { EventId(videos_to_rate[i]) : i \in 1..Len(videos_to_rate) }
          df == RowsIn(df_metadata.rows, "id", event_ids)
      IN  IF Len(df) = 0 THEN { videos_to_rate }
          ELSE
            LET target == Min(IF number_of_videos # 0 THEN number_of_videos ELSE Len(df),
                              Len(df))
                selected_ids == StratifiedSampleRecursive(df, df_metadata.columns,
                                                          strat_config, target, 1)
            IN  UNION { Shuffles([i \in 1..Len(ids) |-> ids[i] \o <<".mp4">>]) :
                          ids \in selected_ids }

\* df_metadata['id'] raises KeyError on a table without an id column
SamplerRaises(df_metadata, strat_config) ==
    Len(strat_config) # 0 /\ "id" \notin df_metadata.columns

-----------------------------------------------------------------------------
(* Rating scales file and validator:                                       *)
(* src/utils/config_loader.py, src/pages/videoplayer.py                    *)

\* Python values of a submitted scale
None == [py |-> "None"]
Num(n) == [py |-> "num", n |-> n]
Str(x) == [py |-> "str", s |-> x]

\* "value is None or value == ''"
IsEmpty(value) == value.py = "None" \/ (value.py = "str" /\ value.s = "")

\* dict.get(key) on a dict held as a function
Get(d, key) == IF key \in DOMAIN d THEN d[key] ELSE None

\* a dict that keeps insertion order: a sequence of [key, value]
DictHas(d, key) == \E i \in 1..Len(d) : d[i].key = key
DictGet(d, key, default) ==
    IF DictHas(d, key)
    THEN d[CHOOSE i \in 1..Len(d) : d[i].key = key].value ELSE default
DictPut(d, key, value) ==
    IF DictHas(d, key)
    THEN [i \in 1..Len(d) |-> IF d[i].key = key THEN [key |-> key, value |-> value] ELSE d[i]]
    ELSE Append(d, [key |-> key, value |-> value])

\* a Python int stored as a dict value
PyInt(n) == [pytype |-> "int", int |-> n]

RECURSIVE GroupRequirementsFrom(_, _)
\* lines 71-77: group_requirements[group_id] = number_of_ratings
GroupRequirementsFrom(groups, acc) ==
    IF groups = <<>> THEN acc
    ELSE LET group == Head(groups)
         IN  GroupRequirementsFrom(Tail(groups),
               IF group.id # "" THEN DictPut(acc, group.id, PyInt(group.number_of_ratings))
               ELSE acc)

\* lines 101-106: the number of scales of each group
GroupScaleCount(scales, group_id) ==
    Cardinality({ i \in 1..Len(scales) : scales[i].group = group_id })

\* _validate_group_requirements: a quorum above the number of scales of the
\* group is lowered to that number, unless the group has no scale at all
ValidateGroupRequirements(scales, group_requirements) ==
    [i \in 1..Len(group_requirements) |->
        LET scale_count == GroupScaleCount(scales, group_requirements[i].key)
            required_ratings == group_requirements[i].value.int
        IN  IF scale_count # 0 /\ required_ratings > scale_count
            THEN [key |-> group_requirements[i].key, value |-> PyInt(scale_count)]
            ELSE group_requirements[i]]

\* load_rating_scales on the parsed file
LoadRatingScales(data) ==
    LET groups == IF data.format = "list" THEN <<>> ELSE data.groups
        active_scales == SelectSeq(data.scales, LAMBDA scale : scale.active)
        group_requirements == GroupRequirementsFrom(groups, <<>>)
    IN  [scales |-> active_scales,
         groups |-> groups,
         group_requirements |-> ValidateGroupRequirements(active_scales, group_requirements)]

\* lines 415-424 of initialize_video_player: what the session keeps.
\* required_to_proceed is "true", "false" or "absent" (default True).
SessionRatingState(data) ==
    LET rating_data == LoadRatingScales(data)
        required == SelectSeq(rating_data.scales,
                       LAMBDA scale : scale.required_to_proceed # "false" /\ scale.group = "")
    IN  [rating_scales |-> rating_data.scales,
         rating_groups |-> rating_data.groups,
         group_requirements |-> rating_data.group_requirements,
         required_scales |-> [i \in 1..Len(required) |-> required[i].title]]

\* lines 626-645: whether one scale of a group counts as changed
ScaleChanged(scale, value) ==
    IF IsEmpty(value) THEN FALSE
    ELSE IF scale.type = "slider"
    THEN IF scale.initial_state = "low" THEN value.n # scale.slider_min
         ELSE IF scale.initial_state = "high" THEN value.n # scale.slider_max
         ELSE 2 * value.n # scale.slider_min + scale.slider_max
    ELSE TRUE

\* lines 611-645
ChangedCount(rating_scales, group_id, scale_values) ==
    Cardinality({ i \in 1..Len(rating_scales) :
        /\ rating_scales[i].group = group_id
        /\ ScaleChanged(rating_scales[i], Get(scale_values, rating_scales[i].title)) })

RECURSIVE GroupErrors(_, _, _, _)
\* the loop of lines 605-655 from entry i on: [raised, errors]. Subscripting
\* group_info with 'number_of_ratings' raises TypeError unless it is a dict.
GroupErrors(session, scale_values, i, errors) ==
    IF i > Len(session.group_requirements) THEN [raised |-> FALSE, errors |-> errors]
    ELSE
      LET group_id == session.group_requirements[i].key
          group_info == session.group_requirements[i].value
      IN  IF group_info.pytype # "dict" THEN [raised |-> TRUE, errors |-> <<>>]
          ELSE
            LET required_count == group_info.dict.number_of_ratings
                changed_count == ChangedCount(session.rating_scales, group_id, scale_values)
                entry == IF group_info.dict.error_msg # ""
                         THEN [kind |-> "custom", msg |-> group_info.dict.error_msg]
                         ELSE [kind |-> "group", group |-> group_info.dict.title,
                               changed |-> changed_count, required |-> required_count]
            IN  GroupErrors(session, scale_values, i + 1,
                    IF changed_count < required_count THEN Append(errors, entry) ELSE errors)

\* _validate_ratings
ValidateRatings(session, scale_values) ==
    LET missing_scales == SelectSeq(session.required_scales,
                              LAMBDA title : IsEmpty(Get(scale_values, title)))
        errors == IF missing_scales # <<>>
                  THEN << [kind |-> "required", titles |-> missing_scales] >> ELSE <<>>
    IN  GroupErrors(session, scale_values, 1, errors)

RECURSIVE FamiliarizationGroupErrors(_, _, _, _)
\* familiarization.py, the loop of lines 112-164 from entry i on
FamiliarizationGroupErrors(session, scale_values, i, errors) ==
    IF i > Len(session.group_requirements) THEN [raised |-> FALSE, errors |-> errors]
    ELSE
      LET group_id == session.group_requirements[i].key
          group_info == session.group_requirements[i].value
      IN  IF group_info.pytype # "dict" THEN [raised |-> TRUE, errors |-> <<>>]
          ELSE
            LET required_count == group_info.dict.number_of_ratings
                error_msg == group_info.dict.error_msg
                group_title == group_info.dict.title
                changed_count == ChangedCount(session.rating_scales, group_id, scale_values)
            IN  FamiliarizationGroupErrors(session, scale_values, i + 1,
                    IF changed_count < required_count
                    THEN IF error_msg # ""
                         THEN Append(errors, [kind |-> "custom", msg |-> error_msg])
                         ELSE Append(errors, [kind |-> "group", group |-> group_title,
                                              changed |-> changed_count,
                                              required |-> required_count])
                    ELSE errors)

\* a faulty variant: the individually required scales are not checked
ValidateFamiliarizationGroupsOnly(session, scale_values) ==
    FamiliarizationGroupErrors(session, scale_values, 1, <<>>)

\* _validate_familiarization_ratings (familiarization.py lines 90-166)
ValidateFamiliarizationRatings(session, scale_values) ==
    LET required_scales == session.required_scales
        missing_scales == SelectSeq(required_scales,
                              LAMBDA title : IsEmpty(Get(scale_values, title)))
    IN  FamiliarizationGroupErrors(session, scale_values, 1,
            IF missing_scales # <<>>
            THEN << [kind |-> "required", titles |-> missing_scales] >> ELSE <<>>)

-----------------------------------------------------------------------------
(* Persistence gateway: src/utils/data_persistence.py,                     *)
(* src/utils/gsheets_manager.py, src/utils/user.py                         *)
(*                                                                         *)
(* A dict is a sequence of [key, value] in insertion order. A worksheet is *)
(* the sequence of its rows, the first being the header. A local directory *)
(* is [exists, files]; a file is [name, data, complete, writes], where     *)
(* `writes` counts how often the file was opened for writing.              *)
(* Faults of the remote backend: "before" (no client, spreadsheet or       *)
(* worksheet, or the header write fails: nothing is written) and "row"     *)
(* (the append of the data row fails after the header was written).        *)
(* Faults of the local backend: "open" (makedirs or open fails) and "dump" *)
(* (json.dump fails after open truncated the file).                        *)

Item(key, value) == [key |-> key, value |-> value]

Keys(d) == [i \in 1..Len(d) |-> d[i].key]

RECURSIVE PutAll(_, _)
\* dict.update(items) / {**d, **items}
PutAll(d, items) ==
    IF items = <<>> THEN d
    ELSE PutAll(DictPut(d, Head(items).key, Head(items).value), Tail(items))

\* a faulty variant of the key: lower-cased only
SnakeKeyLowerOnly(title) == Lower(title)

\* key = title.lower().replace(' ', '_')
SnakeKey(title) == ReplaceToken(Lower(title), " ", "_")

\* st.session_state['device_info'] as written into a rating (lines 106-113)
DeviceItems ==
    << Item(<<"device_type">>, Str("laptop/desktop")), Item(<<"os">>, Str("Linux")),
       Item(<<"browser">>, Str("Firefox")), Item(<<"browser_version">>, Str("1")),
       Item(<<"maxTouchPoints">>, Num(0)), Item(<<"screen_width">>, Num(100)),
       Item(<<"screen_height">>, Num(100)), Item(<<"user_agent">>, Str("ua")) >>

\* lines 92-113 of save_rating: the record that is stored
RatingData(user_id, action_id, scale_values, has_device_info) ==
    LET ids == << Item(<<"user_id">>, Str(user_id)), Item(<<"id">>, Str(action_id)) >>
        scaled == PutAll(ids, [i \in 1..Len(scale_values) |->
                       Item(SnakeKey(scale_values[i].key), scale_values[i].value)])
    IN  IF has_device_info THEN PutAll(scaled, DeviceItems) ELSE scaled

\* User.to_dict
UserToDict(user, consent_given) ==
    LET base == << Item(<<"user_id">>, Str(user.user_id)) >> \o user.legacy
                   \o << Item(<<"saved_at">>, Str("now")) >>
        full == PutAll(base, user.data)
    IN  IF consent_given
        THEN PutAll(full, << Item(<<"consent_given">>, Str("True")),
                             Item(<<"consent_timestamp">>, Str("now")) >>)
        ELSE full

\* f"{user_id}_{action_id}.json"
RatingFileName(user_id, action_id) == user_id \o <<"_">> \o action_id \o <<".json">>

\* f"{user.user_id}.json"
UserFileName(user_id) == user_id \o <<".json">>

\* with the timestamp added (lines 98-99)
WithTimestamp(data) == DictPut(data, <<"timestamp">>, Str("now"))

\* the keys of the record that the header lacks, in the record's order
NewKeys(ws, data) ==
    IF Len(ws) = 0 THEN <<>>
    ELSE SelectSeq(Keys(WithTimestamp(data)), LAMBDA k : k \notin Range(ws[1]))

\* "[k for k in new_keys if k not in existing_keys]" iterates over a set:
\* the new columns can come in any order
NewKeyOrders(ws, data) == Shuffles(NewKeys(ws, data))

\* a faulty variant of the row: the values in the record's own order
RowInRecordOrder(columns, record) == [i \in 1..Len(record) |-> record[i].value]

\* "[record.get(col, '') for col in columns]"
RowFor(columns, record) ==
    [i \in 1..Len(columns) |-> DictGet(record, columns[i], Str(""))]

\* a faulty variant of the handlers: the exception is raised again
PropagatesRaised(raised) == raised

\* "except Exception as e: print(...)": whether an exception raised inside
\* a try block leaves the function that holds the block
Propagates(raised) == FALSE

\* append_rating_to_gsheets / append_user_to_gsheets: [ok, raised, ws]. The
\* whole body is one try block (lines 90-157, 227-294).
AppendToGsheets(ws, data, fault, new_order) ==
    LET record == WithTimestamp(data)
        existing_data == IF Len(ws) = 1 /\ ws[1] = <<>> THEN <<>> ELSE ws
    IN  IF fault = "before"
        THEN [ok |-> FALSE, raised |-> Propagates(TRUE), ws |-> ws]
        ELSE IF Len(existing_data) = 0
        THEN IF fault = "row"
             THEN [ok |-> FALSE, raised |-> Propagates(TRUE), ws |-> << Keys(record) >>]
             ELSE [ok |-> TRUE, raised |-> FALSE,
                   ws |-> << Keys(record), [i \in 1..Len(record) |-> record[i].value] >>]
        ELSE
          LET existing_headers == ws[1]
              all_columns == IF Range(Keys(record)) # Range(existing_headers)
                             THEN existing_headers \o new_order
                             ELSE existing_headers
              updated == [ws EXCEPT ![1] = all_columns]
          IN  IF fault = "row"
              THEN [ok |-> FALSE, raised |-> Propagates(TRUE), ws |-> updated]
              ELSE [ok |-> TRUE, raised |-> FALSE,
                    ws |-> Append(updated, RowFor(all_columns, record))]

\* the files of a directory other than `name`
OtherFiles(dir, name) == { f \in dir.files : f.name # name }

\* how often `name` was opened for writing
Writes(dir, name) ==
    IF \E f \in dir.files : f.name = name
    THEN (CHOOSE f \in dir.files : f.name = name).writes ELSE 0

\* os.makedirs(..., exist_ok=True); open(path, 'w'); json.dump(data, f):
\* [raised, dir]
WriteJson(dir, name, data, fault) ==
    IF fault = "open" THEN [raised |-> TRUE, dir |-> dir]
    ELSE IF fault = "dump"
    THEN [raised |-> TRUE,
          dir |-> [exists |-> TRUE,
                   files |-> OtherFiles(dir, name) \cup
                       {[name |-> name, data |-> <<>>, complete |-> FALSE,
                         writes |-> Writes(dir, name) + 1]}]]
    ELSE [raised |-> FALSE,
          dir |-> [exists |-> TRUE,
                   files |-> OtherFiles(dir, name) \cup
                       {[name |-> name, data |-> data, complete |-> TRUE,
                         writes |-> Writes(dir, name) + 1]}]]

OnlineModes == {"online", "both"}
LocalModes  == {"local", "both"}

\* a faulty variant of the return value: every backend must have succeeded
SuccessOfBoth(gsheets_success, local_json_success) ==
    gsheets_success /\ local_json_success

\* "success = gsheets_success or local_json_success"
Success(gsheets_success, local_json_success) == gsheets_success \/ local_json_success

\* the two try blocks and the return of save_rating (lines 119-150) and of
\* save_user_data (lines 38-72): [raised, ret, trace, ws, dir], where trace
\* lists the backends that were called
SaveBoth(storage_mode, ws, dir, name, data, remote_fault, local_fault, new_order) ==
    LET online == IF storage_mode \in OnlineModes
                  THEN AppendToGsheets(ws, data, remote_fault, new_order)
                  ELSE [ok |-> FALSE, raised |-> FALSE, ws |-> ws]
        online_raised == Propagates(online.raised)
        gsheets_success == ~online.raised /\ online.ok
        local_reached == ~online_raised /\ storage_mode \in LocalModes
        local == IF local_reached
                 THEN WriteJson(dir, name, data, local_fault)
                 ELSE [raised |-> FALSE, dir |-> dir]
        local_json_success == local_reached /\ ~local.raised
        raised == online_raised \/ Propagates(local.raised)
    IN  [raised |-> raised,
         ret |-> ~raised /\ Success(gsheets_success, local_json_success),
         trace |-> (IF storage_mode \in OnlineModes THEN <<"gsheets">> ELSE <<>>)
                   \o (IF local_reached THEN <<"local">> ELSE <<>>),
         ws |-> online.ws,
         dir |-> local.dir]

\* save_rating(user_id, action_id, scale_values)
SaveRating(storage_mode, ws, dir, user_id, action_id, scale_values, has_device_info, remote_fault, local_fault, new_order) ==
    SaveBoth(storage_mode, ws, dir, RatingFileName(user_id, action_id),
             RatingData(user_id, action_id, scale_values, has_device_info),
             remote_fault, local_fault, new_order)

\* save_user_data(user)
SaveUserData(storage_mode, ws, dir, user, consent_given, remote_fault, local_fault, new_order) ==
    SaveBoth(storage_mode, ws, dir, UserFileName(user.user_id),
             UserToDict(user, consent_given),
             remote_fault, local_fault, new_order)

-----------------------------------------------------------------------------
(* Lookups in the stores: src/utils/data_persistence.py,                   *)
(* src/utils/gsheets_manager.py, and the rating loop's initialisation,     *)
(* src/pages/videoplayer.py                                                *)

\* s.endswith(tok)
EndsWith(s, tok) == Len(s) > 0 /\ s[Len(s)] = tok

\* index of the first occurrence of tok in s
IndexOf(s, tok) == CHOOSE i \in 1..Len(s) : s[i] = tok /\ \A j \in 1..(i - 1) : s[j] # tok

RECURSIVE Split(_, _)
\* s.split(sep): the list of parts
Split(s, sep) ==
    IF sep \notin Range(s) THEN << s >>
    ELSE << SubSeq(s, 1, IndexOf(s, sep) - 1) >>
         \o Split(SubSeq(s, IndexOf(s, sep) + 1, Len(s)), sep)

\* s.split(sep, 1)
SplitOnce(s, sep) ==
    IF sep \notin Range(s) THEN << s >>
    ELSE << SubSeq(s, 1, IndexOf(s, sep) - 1), SubSeq(s, IndexOf(s, sep) + 1, Len(s)) >>

\* os.path.splitext(name)[0]
SplitExt(name) ==
    IF Len(name) > 1 /\ name[Len(name)] \in {".mp4", ".MP4", ".json"}
    THEN SubSeq(name, 1, Len(name) - 1) ELSE name

\* the cell of a data row under the header column `col`
Cell(ws, r, col) == ws[r][IndexOf(ws[1], col)]

\* get_rated_videos_for_user_from_gsheets: the set of ids; an empty or
\* unreadable sheet gives none
RatedVideosFromGsheets(ws, user_id, read_fault) ==
    IF read_fault \/ Len(ws) < 2 THEN {}
    ELSE IF <<"user_id">> \notin Range(ws[1]) \/ <<"id">> \notin Range(ws[1]) THEN {}
    ELSE { Cell(ws, r, <<"id">>).s :
             r \in { q \in 2..Len(ws) : Lower(Cell(ws, q, <<"user_id">>).s) = Lower(user_id) } }

\* the local fallback of get_rated_videos_for_user (lines 255-278)
RatedVideosFromFiles(dir, user_id) ==
    IF ~dir.exists THEN {}
    ELSE { SplitOnce(Remove(f.name, ".json"), "_")[2] :
             f \in { g \in dir.files :
                       /\ EndsWith(g.name, ".json") /\ "_" \in Range(g.name)
                       /\ Lower(Split(g.name, "_")[1]) = Lower(user_id)
                       /\ Len(SplitOnce(Remove(g.name, ".json"), "_")) > 1 } }

\* get_rated_videos_for_user
GetRatedVideosForUser(ws, dir, user_id, read_fault) ==
    LET gsheets_ids == RatedVideosFromGsheets(ws, user_id, read_fault)
    IN  IF gsheets_ids # {} THEN gsheets_ids ELSE RatedVideosFromFiles(dir, user_id)

\* user_exists_in_gsheets
UserExistsInGsheets(ws, user_id, read_fault) ==
    IF read_fault \/ Len(ws) < 2 \/ <<"user_id">> \notin Range(ws[1]) THEN FALSE
    ELSE \E r \in 2..Len(ws) : Lower(Cell(ws, r, <<"user_id">>).s) = Lower(user_id)

\* user_exists
UserExists(ws, data_dir, ratings_dir, user_id, read_fault) ==
    \/ UserExistsInGsheets(ws, user_id, read_fault)
    \/ /\ data_dir.exists
       /\ \/ \E f \in data_dir.files :
                EndsWith(f.name, ".json") /\ Lower(Remove(f.name, ".json")) = Lower(user_id)
          \/ /\ ratings_dir.exists
             /\ \E f \in ratings_dir.files :
                   /\ "_" \in Range(f.name) /\ EndsWith(f.name, ".json")
                   /\ Lower(Split(f.name, "_")[1]) = Lower(user_id)

\* lines 445-453: drop the videos whose count of rating files has reached
\* min_ratings_per_video; any exception leaves the list as it is
WithoutFullyRated(dir, unrated_videos, min_ratings_per_video) ==
    LET rated_files == { f \in dir.files : EndsWith(f.name, ".json") }
        rating_counts(id) ==
            Cardinality({ f \in rated_files : Remove(Split(f.name, "_")[2], ".json") = id })
    IN  IF ~dir.exists \/ \E f \in rated_files : Len(Split(f.name, "_")) < 2
        THEN unrated_videos
        ELSE SelectSeq(unrated_videos,
                 LAMBDA v : rating_counts(Remove(v, ".mp4")) < min_ratings_per_video)

\* lines 490-503: stratified or simple random sampling
SampledVideos(videos_to_rate, df_metadata_filtered, number_of_videos, strat_config) ==
    IF Len(strat_config) > 0
    THEN StratifiedSampleVideos(videos_to_rate, df_metadata_filtered,
                                number_of_videos, strat_config)
    ELSE IF number_of_videos # 0 /\ number_of_videos < Len(videos_to_rate)
    THEN UNION { Shuffles(l) : l \in Samples(videos_to_rate, number_of_videos) }
    ELSE Shuffles(videos_to_rate)

\* initialize_video_player: the lists videos_to_rate can be set to
InitializeVideoPlayer(settings, all_videos, df_metadata_full, ws, dir, user_id, read_fault) ==
    LET videos_rated_by_user == GetRatedVideosForUser(ws, dir, user_id, read_fault)
        unrated_videos == SelectSeq(all_videos,
                              LAMBDA v : Remove(v, ".mp4") \notin videos_rated_by_user)
        videos_to_rate == WithoutFullyRated(dir, unrated_videos,
                                            settings.min_ratings_per_video)
        df_metadata_filtered ==
            IF videos_to_rate # <<>> /\ df_metadata_full.rows # <<>>
            THEN [df_metadata_full EXCEPT !.rows =
                     RowsIn(df_metadata_full.rows, "id",
                            { Remove(v, ".mp4") : v \in Range(videos_to_rate) })]
            ELSE df_metadata_full
    IN  SampledVideos(videos_to_rate, df_metadata_filtered,
                      settings.number_of_videos, settings.variables_for_stratification)

\* a faulty variant of the advance: the index moves on whatever save_rating
\* returned
AdvancedIndexAnyway(current_video_index, saved) == current_video_index + 1

\* "if save_rating(...): ... st.session_state.current_video_index += 1"
AdvancedIndex(current_video_index, saved) ==
    IF saved THEN current_video_index + 1 ELSE current_video_index

\* scale_values in the order of the rating scales, as dict.items() gives them
ScaleItems(rating_scales, scale_values) ==
    LET shown == SelectSeq(rating_scales, LAMBDA scale : scale.title \in DOMAIN scale_values)
    IN  [i \in 1..Len(shown) |-> Item(shown[i].title, scale_values[shown[i].title])]

-----------------------------------------------------------------------------
(* Sampler inputs                                                          *)

MaxTarget == 4

V1 == <<"e1", ".mp4">>
V2 == <<"e2", ".mp4">>
V3 == <<"e3", ".mp4">>
V4 == <<"e4", ".mp4">>

\* listings of the video directory handed to the sampler
SamplerPools ==
    { SelectSeq(<<V1, V2, V3, V4>>, LAMBDA v : v \in S) : S \in SUBSET {V1, V2, V3, V4} }

MetaRow(id, outcome, half) == [id |-> id, outcome |-> outcome, half |-> half]

MetaFull ==
    [columns |-> {"id", "outcome", "half"},
     rows |-> << MetaRow(<<"e1">>, "win", "first"), MetaRow(<<"e2">>, "win", "second"),
                 MetaRow(<<"e3">>, "loss", "first"), MetaRow(<<"e4">>, "loss", "second") >>]

\* three wins and one loss
MetaSkewed ==
    [columns |-> {"id", "outcome", "half"},
     rows |-> << MetaRow(<<"e1">>, "win", "first"), MetaRow(<<"e2">>, "win", "second"),
                 MetaRow(<<"e3">>, "win", "first"), MetaRow(<<"e4">>, "loss", "second") >>]

\* pd.DataFrame(): no rows, no columns
MetaNone == [columns |-> {}, rows |-> <<>>]

\* two rows of the table for the event e1
MetaRepeated ==
    [columns |-> {"id", "outcome", "half"},
     rows |-> << MetaRow(<<"e1">>, "win", "first"), MetaRow(<<"e1">>, "loss", "first"),
                 MetaRow(<<"e2">>, "win", "second"), MetaRow(<<"e3">>, "loss", "first") >>]

MetaTables == {MetaFull, MetaSkewed, MetaNone, MetaRepeated}

Stratum(variable, levels, proportions) ==
    [variable |-> variable, levels |-> levels, proportions |-> proportions]

OutcomeHalves   == Stratum("outcome", <<"win", "loss">>, <<2, 2>>)
OutcomeQuarters == Stratum("outcome", <<"win", "loss">>, <<1, 3>>)
HalfHalves      == Stratum("half", <<"first", "second">>, <<2, 2>>)

StratConfigs ==
    { <<>>,
      <<OutcomeHalves>>,
      <<OutcomeQuarters>>,
      <<OutcomeHalves, HalfHalves>>,
      <<Stratum("", <<"win", "loss">>, <<2, 2>>)>>,
      <<Stratum("outcome", <<"win", "loss">>, <<4>>)>>,
      <<Stratum("league", <<"win", "loss">>, <<2, 2>>)>>,
      <<Stratum("outcome", <<"draw">>, <<4>>)>>,
      <<Stratum("outcome", <<"win", "win">>, <<2, 2>>)>>,
      <<OutcomeHalves, Stratum("half", <<>>, <<>>)>> }

-----------------------------------------------------------------------------
(* Rating scale files                                                      *)

Scale(title, type, group, required, initial_state, active) ==
    [title |-> title, type |-> type, group |-> group,
     required_to_proceed |-> required, initial_state |-> initial_state,
     slider_min |-> 0, slider_max |-> 100, active |-> active]

Group(id, title, number_of_ratings, error_msg) ==
    [id |-> id, title |-> title, number_of_ratings |-> number_of_ratings,
     error_msg |-> error_msg]

TJoy  == <<"Joy">>
TFear == <<"Fear">>
TCalm == <<"Calm">>
TNote == <<"Note">>
TWinLoss == <<"Win", " ", "or", " ", "Loss">>

\* legacy format: a bare list of scales
RatingLegacy ==
    [format |-> "list", groups |-> <<>>,
     scales |-> << Scale(TNote, "text", "", "true", "low", TRUE),
                   Scale(TJoy, "slider", "", "false", "low", TRUE),
                   Scale(TFear, "slider", "", "true", "low", FALSE) >>]

\* new format without groups
RatingUngrouped ==
    [format |-> "dict", groups |-> <<>>,
     scales |-> << Scale(TWinLoss, "discrete", "", "absent", "low", TRUE),
                   Scale(TNote, "text", "", "true", "low", TRUE),
                   Scale(TCalm, "slider", "", "false", "center", TRUE) >>]

\* a quorum of 2 over three sliders, and one required text scale
RatingGrouped ==
    [format |-> "dict",
     groups |-> << Group("emotions", "Emotions", 2, "") >>,
     scales |-> << Scale(TJoy, "slider", "emotions", "true", "low", TRUE),
                   Scale(TFear, "slider", "emotions", "true", "high", TRUE),
                   Scale(TCalm, "slider", "emotions", "true", "center", TRUE),
                   Scale(TNote, "text", "", "true", "low", TRUE) >>]

\* a custom message and a quorum above the number of scales of the group
RatingCustom ==
    [format |-> "dict",
     groups |-> << Group("emotions", "Emotions", 5, "Rate more emotions") >>,
     scales |-> << Scale(TJoy, "slider", "emotions", "absent", "low", TRUE),
                   Scale(TWinLoss, "discrete", "emotions", "true", "low", TRUE),
                   Scale(TNote, "text", "", "false", "low", TRUE) >>]

\* a group none of whose scales is active, and a group entry without an id
RatingOrphan ==
    [format |-> "dict",
     groups |-> << Group("emotions", "Emotions", 1, ""), Group("", "Unnamed", 1, "") >>,
     scales |-> << Scale(TJoy, "slider", "emotions", "true", "low", FALSE),
                   Scale(TWinLoss, "discrete", "", "true", "low", TRUE),
                   Scale(TCalm, "slider", "", "true", "high", TRUE),
                   Scale(TNote, "text", "", "absent", "low", TRUE) >>]

RatingFiles == {RatingLegacy, RatingUngrouped, RatingGrouped, RatingCustom, RatingOrphan}

\* what the widget of a scale can return (video_rating_display.py lines 154-195)
WidgetValues(scale) ==
    IF scale.type = "slider" THEN {Num(0), Num(50), Num(100)}
    ELSE IF scale.type = "text" THEN {None, Str("text")}
    ELSE {None, Str("Win"), Str("Loss")}

\* the scale_values dicts display_video_rating_interface can return
ScaleValueMaps(rating_scales) ==
    { f \in [ Range([i \in 1..Len(rating_scales) |-> rating_scales[i].title])
                -> {None, Num(0), Num(50), Num(100), Str("text"), Str("Win"), Str("Loss")} ] :
        \A i \in 1..Len(rating_scales) :
            f[rating_scales[i].title] \in WidgetValues(rating_scales[i]) }

-----------------------------------------------------------------------------
(* Idle values of the parts a specification does not exercise            *)

NoSession ==
    [rating_scales |-> <<>>, rating_groups |-> <<>>,
     group_requirements |-> <<>>, required_scales |-> <<>>]

NoResult == [raised |-> FALSE, errors |-> <<>>]

ValidatorIdle ==
    /\ va_pc = "idle" /\ va_yaml = RatingLegacy /\ va_session = NoSession
    /\ va_values = <<>> /\ va_result = NoResult

SamplerIdle ==
    /\ sm_pc = "idle" /\ sm_videos = <<>> /\ sm_metadata = MetaNone
    /\ sm_number = 0 /\ sm_number_given = FALSE /\ sm_strat = <<>> /\ sm_selected = <<>>

\* a directory that was never created
NoDir == [exists |-> FALSE, files |-> {}]

\* config.yaml settings
Settings(storage_mode, min_ratings_per_video, number_of_videos) ==
    [storage_mode |-> storage_mode,
     min_ratings_per_video |-> min_ratings_per_video,
     number_of_videos |-> number_of_videos,
     variables_for_stratification |-> <<>>,
     display_pitch |-> TRUE,
     enable_familiarization |-> FALSE]

StorageModes == {"local", "online", "both"}

StoresIdle ==
    /\ config = Settings("both", 1, 0)
    /\ user_ratings = NoDir /\ user_data = NoDir
    /\ ws_ratings = <<>> /\ ws_users = <<>>

NoCall ==
    [op |-> "none", user_id |-> <<>>, action_id |-> <<>>, scale_values |-> <<>>,
     remote_fault |-> "none", local_fault |-> "none",
     ret |-> FALSE, raised |-> FALSE, trace |-> <<>>]

\* a session before the consent page and before the rating loop
FreshSession == [device_info |-> FALSE, consent_given |-> FALSE]

\* a session after both
FullSession == [device_info |-> TRUE, consent_given |-> TRUE]

PersistIdle == pe_calls = 0 /\ pe_session = FreshSession /\ pe_last = NoCall

\* no script run yet
NoEvent == [name |-> "none", index |-> 0, save_called |-> FALSE, saved |-> FALSE]

\* init_session_state (app.py lines 41-57): a fresh st.session_state
SessionStart ==
    /\ ss_page = "welcome" /\ ss_user_id = <<>> /\ ss_video_initialized = "absent"
    /\ ss_videos_to_rate = <<>> /\ ss_current_video_index = 0 /\ ss_confirm_back = FALSE
    /\ ss_session_ratings = <<>> /\ ss_handler = NoEvent
    /\ ss_user_id_confirmed = FALSE /\ ss_age = 0 /\ ss_submitted = 0

SessionIdle == SessionStart

\* no call of generate_random_user_id
GenerateIdle ==
    /\ gn_pc = "idle" /\ gn_existing = {} /\ gn_attempts = 0
    /\ gn_user_id = <<>> /\ gn_returned = <<>>

\* no participant is registering
RegisterIdle == rg_pc = <<>> /\ rg_user_id = <<>>

IdIdle == GenerateIdle /\ RegisterIdle

\* no practice trial yet
FamiliarizationIdle ==
    /\ fa_initialized = "absent" /\ fa_videos = <<>> /\ fa_index = 0
    /\ fa_confirm_back = FALSE /\ fa_confirm_back_pre = FALSE /\ fa_result = NoResult

\* no script run of the concurrent sessions
NoRun == [session |-> 0, op |-> "none", action_id |-> <<>>, ret |-> FALSE]

\* no concurrent session
ConcurrentIdle == cc_pc = <<>> /\ cc_videos = <<>> /\ cc_index = <<>> /\ cc_last = NoRun

\* no call of append_rating_to_gsheets in steps
AppendIdle == ap_pc = <<>> /\ ap_record = <<>> /\ ap_existing = <<>>

CoIdle == ConcurrentIdle /\ AppendIdle

ExIdle == FamiliarizationIdle /\ CoIdle

-----------------------------------------------------------------------------
(* Specification of one sampler call                                       *)

SamplerInit ==
    /\ sm_pc = "ready"
    /\ sm_videos \in SamplerPools
    /\ sm_metadata \in MetaTables
    /\ sm_number \in 0..MaxTarget
    /\ sm_number_given \in BOOLEAN
    /\ ~sm_number_given => sm_number = 0
    /\ sm_strat \in StratConfigs
    /\ sm_selected = <<>>
    /\ ValidatorIdle /\ StoresIdle /\ PersistIdle /\ SessionIdle /\ IdIdle /\ ExIdle

\* stratified_sample_videos(videos_to_rate, df_metadata, number_of_videos, strat_config)
Sample ==
    /\ sm_pc = "ready"
    /\ ~SamplerRaises(sm_metadata, sm_strat)
    /\ \E r \in StratifiedSampleVideos(sm_videos, sm_metadata, sm_number, sm_strat) :
          sm_selected' = r
    /\ sm_pc' = "done"
    /\ UNCHANGED <<sm_videos, sm_metadata, sm_number, sm_number_given, sm_strat, vaVars, stVars, peVars, ssVars, idVars, exVars>>

SampleRaises ==
    /\ sm_pc = "ready"
    /\ SamplerRaises(sm_metadata, sm_strat)
    /\ sm_pc' = "raised"
    /\ UNCHANGED <<sm_videos, sm_metadata, sm_number, sm_number_given, sm_strat, sm_selected, vaVars, stVars, peVars, ssVars, idVars, exVars>>

SamplerNext == Sample \/ SampleRaises

SpecSampler == SamplerInit /\ [][SamplerNext]_vars

-----------------------------------------------------------------------------
(* Properties of the sampler                                               *)

RECURSIVE SeqSum(_)
SeqSum(s) == IF s = <<>> THEN 0 ELSE Head(s) + SeqSum(Tail(s))

\* the metadata rows of the videos of the pool
PoolRows == RowsIn(sm_metadata.rows, "id", { EventId(v) : v \in Range(sm_videos) })

\* a stratum the code accepts, whose proportions sum to 1.0 and whose levels
\* all occur among the rows of the pool
WellFormedStratum(vc) ==
    /\ vc.variable # "" /\ vc.levels # <<>>
    /\ Len(vc.levels) = Len(vc.proportions)
    /\ vc.variable \in sm_metadata.columns
    /\ SeqSum(vc.proportions) = 4
    /\ \A i \in 1..Len(vc.levels) :
          \E j \in 1..Len(PoolRows) : PoolRows[j][vc.variable] = vc.levels[i]

WellFormedStrata == \A l \in 1..Len(sm_strat) : WellFormedStratum(sm_strat[l])

\* how many of the selected videos carry `value` in metadata column `col`
SelectedIn(col, value) ==
    Cardinality({ i \in 1..Len(sm_selected) :
        \E j \in 1..Len(PoolRows) :
            /\ PoolRows[j].id = EventId(sm_selected[i])
            /\ PoolRows[j][col] = value })

\* the target the recursion starts from (lines 56-57)
SamplerTarget == Min(IF sm_number # 0 THEN sm_number ELSE Len(PoolRows), Len(PoolRows))

\* C1: for every pool, every target >= 1 and every well-formed stratification
\* config, the returned list has at most `target` and at most |pool| elements.
C1_SizeWithinTargetAndPool ==
    (sm_pc = "done" /\ sm_number >= 1 /\ WellFormedStrata)
        => /\ Len(sm_selected) <= sm_number
           /\ Len(sm_selected) <= Len(sm_videos)

\* C2: with one stratification variable, the number selected from each level's
\* bucket is min(round(target * proportion), bucket size), whatever the
\* sibling buckets hold.
C2_BucketQuota ==
    (sm_pc = "done" /\ Len(sm_strat) = 1 /\ WellFormedStrata /\ sm_number >= 1)
        => \A i \in 1..Len(sm_strat[1].levels) :
             LET bucket == Len(RowsIn(PoolRows, sm_strat[1].variable,
                                      {sm_strat[1].levels[i]}))
             IN  SelectedIn(sm_strat[1].variable, sm_strat[1].levels[i])
                   = Min(RoundHalfEven(SamplerTarget * sm_strat[1].proportions[i], 4),
                         bucket)

\* C18: with an empty stratification config the sampler returns a
\* duplicate-free list of pool elements, of size exactly `target` when a
\* target is given and smaller than the pool size, and a permutation of the
\* whole pool when the target is absent or >= the pool size.
C18_SimpleRandomSample ==
    (sm_pc = "done" /\ sm_strat = <<>>) =>
        /\ \A i, j \in 1..Len(sm_selected) : i # j => sm_selected[i] # sm_selected[j]
        /\ Range(sm_selected) \subseteq Range(sm_videos)
        /\ IF sm_number_given /\ sm_number < Len(sm_videos)
           THEN Len(sm_selected) = sm_number
           ELSE /\ Len(sm_selected) = Len(sm_videos)
                /\ Range(sm_selected) = Range(sm_videos)

\* C30: every video returned by stratified_sample_videos is an element of the
\* input pool and occurs at most once in the returned list.
C30_SelectedFromPoolOnce ==
    sm_pc = "done" =>
        /\ \A i \in 1..Len(sm_selected) : sm_selected[i] \in Range(sm_videos)
        /\ \A i, j \in 1..Len(sm_selected) : sm_selected[i] = sm_selected[j] => i = j

\* the config of a level is structurally invalid, names a variable absent
\* from the metadata, or matches no row of df
Degraded(df, var_config) ==
    \/ var_config.variable = "" \/ var_config.levels = <<>> \/ var_config.proportions = <<>>
    \/ Len(var_config.levels) # Len(var_config.proportions)
    \/ var_config.variable \notin sm_metadata.columns
    \/ \A j \in 1..Len(df) : df[j][var_config.variable] \notin Range(var_config.levels)

RECURSIVE LevelCalls(_, _, _)
\* the calls [df, target_count, level] of _stratified_sample_recursive that
\* the call with these arguments makes, itself included
LevelCalls(df, target_count, level) ==
    { [df |-> df, target_count |-> target_count, level |-> level] }
    \cup
    IF level > Len(sm_strat) THEN {}
    ELSE IF Degraded(df, sm_strat[level]) THEN {}
    ELSE LET var_config == sm_strat[level]
             level_df(i) == RowsIn(df, var_config.variable, {var_config.levels[i]})
         IN  UNION { IF Len(level_df(i)) = 0 THEN {}
                     ELSE LevelCalls(level_df(i),
                                     LevelTarget(target_count, var_config.proportions[i],
                                                 Len(level_df(i))),
                                     level + 1) :
                     i \in 1..Len(var_config.levels) }

\* C19: a level whose config is structurally invalid, names a variable absent
\* from the metadata or matches no candidate row returns at most target_count
\* identifiers, taken unfiltered from its candidates, and the sampling
\* completes without an error.
C19_DegradedLevelWithinTarget ==
    (sm_pc = "done" /\ sm_strat # <<>> /\ PoolRows # <<>>) =>
        \A call \in LevelCalls(PoolRows, SamplerTarget, 1) :
            (call.level <= Len(sm_strat) /\ Degraded(call.df, sm_strat[call.level])) =>
                \A ids \in StratifiedSampleRecursive(call.df, sm_metadata.columns, sm_strat,
                                                     call.target_count, call.level) :
                    /\ Len(ids) <= call.target_count
                    /\ ids = SubSeq(IdList(call.df), 1, Len(ids))

-----------------------------------------------------------------------------
(* Specification of loading the scales and validating one submission       *)

ValidatorInit ==
    /\ va_pc = "start"
    /\ va_yaml \in RatingFiles
    /\ va_session = NoSession
    /\ va_values = <<>>
    /\ va_result = NoResult
    /\ SamplerIdle /\ StoresIdle /\ PersistIdle /\ SessionIdle /\ IdIdle /\ ExIdle

\* initialize_video_player lines 415-424
LoadScales ==
    /\ va_pc = "start"
    /\ va_session' = SessionRatingState(va_yaml)
    /\ va_pc' = "loaded"
    /\ UNCHANGED <<va_yaml, va_values, va_result, smVars, idVars, exVars, stVars, peVars, ssVars>>

\* validation_errors = _validate_ratings(scale_values) on the rating page,
\* and _validate_familiarization_ratings(scale_values) on the practice page
\* for the same values and session state
Validate ==
    /\ va_pc = "loaded"
    /\ \E scale_values \in ScaleValueMaps(va_session.rating_scales) :
          /\ va_values' = scale_values
          /\ va_result' = ValidateRatings(va_session, scale_values)
          /\ fa_result' = ValidateFamiliarizationRatings(va_session, scale_values)
    /\ va_pc' = "validated"
    /\ UNCHANGED <<va_yaml, va_session, smVars, idVars, faState, coVars, stVars, peVars, ssVars>>

ValidatorNext == LoadScales \/ Validate

SpecValidator == ValidatorInit /\ [][ValidatorNext]_vars

-----------------------------------------------------------------------------
(* Properties of the validator                                             *)

\* the entries of the error list that report group `i` of group_requirements
GroupEntries(i) ==
    LET group_id == va_session.group_requirements[i].key
        k == va_session.group_requirements[i].value.int
        group == va_session.rating_groups[
                    CHOOSE j \in 1..Len(va_session.rating_groups) :
                        va_session.rating_groups[j].id = group_id]
        changed == ChangedCount(va_session.rating_scales, group_id, va_values)
    IN  { e \in 1..Len(va_result.errors) :
            LET entry == va_result.errors[e]
            IN  IF group.error_msg # ""
                THEN entry.kind = "custom" /\ entry.msg = group.error_msg
                ELSE /\ entry.kind = "group" /\ entry.group = group.title
                     /\ entry.changed = changed /\ entry.required = k }

\* C3: for every group with quorum k, validation emits exactly one entry for
\* the group (its custom message, or the default with changed/k) when fewer
\* than k of its scales are changed, and none otherwise.
C3_GroupQuorumErrors ==
    va_pc = "validated" =>
        /\ ~va_result.raised
        /\ \A i \in 1..Len(va_session.group_requirements) :
              Cardinality(GroupEntries(i)) =
                IF ChangedCount(va_session.rating_scales,
                                va_session.group_requirements[i].key, va_values)
                     < va_session.group_requirements[i].value.int
                THEN 1 ELSE 0

\* titles of the individually required scales whose value is absent or empty
MissingRequired ==
    LET missing == SelectSeq(va_session.rating_scales,
                      LAMBDA scale : /\ scale.required_to_proceed # "false"
                                     /\ scale.group = ""
                                     /\ IsEmpty(Get(va_values, scale.title)))
    IN  [i \in 1..Len(missing) |-> missing[i].title]

\* C4: validation emits exactly one aggregated entry listing exactly the
\* missing individually required scales, none when nothing is missing,
\* whatever the groups hold.
C4_RequiredEntry ==
    va_pc = "validated" =>
        /\ ~va_result.raised
        /\ LET entries == { e \in 1..Len(va_result.errors) :
                              va_result.errors[e].kind = "required" }
           IN  IF MissingRequired = <<>> THEN entries = {}
               ELSE /\ Cardinality(entries) = 1
                    /\ \A e \in entries : va_result.errors[e].titles = MissingRequired

\* the submission passes the group check: validation returns, and with no
\* entry for a group
PassesGroupCheck(scale_values) ==
    LET result == ValidateRatings(va_session, scale_values)
    IN  /\ ~result.raised
        /\ \A e \in 1..Len(result.errors) : result.errors[e].kind = "required"

\* C17: after load_rating_scales, the quorum stored for every group is at
\* most the number of active scales of that group, so that some submission
\* passes the group check.
C17_QuorumWithinGroupSize ==
    va_pc \in {"loaded", "validated"} =>
        /\ \A i \in 1..Len(va_session.group_requirements) :
              va_session.group_requirements[i].value.int
                  <= GroupScaleCount(va_session.rating_scales,
                                     va_session.group_requirements[i].key)
        /\ \E scale_values \in ScaleValueMaps(va_session.rating_scales) :
              PassesGroupCheck(scale_values)

\* C25: for every submitted value map and every session state the loaded
\* scales file gives, _validate_familiarization_ratings and _validate_ratings
\* have the same outcome: the same list of error messages, or both raise.
C25_SameValidation == va_pc = "validated" => fa_result = va_result

\* both validators have reported a missing required scale
C25_Witness ==
    /\ va_pc = "validated" /\ ~fa_result.raised
    /\ \E i \in 1..Len(fa_result.errors) : fa_result.errors[i].kind = "required"
    /\ fa_result = va_result

-----------------------------------------------------------------------------
(* Specification of the persistence gateway: up to MaxCalls calls of       *)
(* save_rating and save_user_data, each with injected backend faults       *)

MaxCalls == 2

RemoteFaults == {"none", "before", "row"}
LocalFaults  == {"none", "open", "dump"}

\* the faults that can show under a storage mode
RemoteFaultsFor(storage_mode) ==
    IF storage_mode \in OnlineModes THEN RemoteFaults ELSE {"none"}
LocalFaultsFor(storage_mode) ==
    IF storage_mode \in LocalModes THEN LocalFaults ELSE {"none"}

UAB12 == <<"AB12">>
UCD34 == <<"CD34">>

E1       == <<"e1">>
Event001 == <<"event", "_", "001">>

\* User() (lines 12-22 of user.py)
NewUser ==
    [user_id |-> <<>>,
     legacy |-> << Item(<<"gender">>, Str("Not specified")), Item(<<"age">>, Num(0)),
                   Item(<<"nationality">>, Str("")), Item(<<"license">>, Str("Not specified")),
                   Item(<<"player_exp">>, Num(0)), Item(<<"coach_exp">>, Num(0)),
                   Item(<<"watch_exp">>, Num(0)) >>,
     data |-> <<>>]

\* User.set_field_value for a numeric questionnaire answer
SetFieldValue(user, field_name, value) ==
    [user EXCEPT !.data = DictPut(user.data, field_name, value),
                 !.legacy = IF DictHas(user.legacy, field_name)
                            THEN DictPut(user.legacy, field_name, value)
                            ELSE user.legacy]

\* a participant who answered the age question
Participant(user_id) ==
    SetFieldValue([NewUser EXCEPT !.user_id = user_id], <<"age">>, Num(30))

PersistVideoIds == {E1, Event001}

\* scale_values as returned by the rating screen: the fall-through {} and a
\* dict of two scales
PersistScaleValues ==
    { <<>>, << Item(TWinLoss, Str("Win")), Item(TNote, Str("text")) >> }

PersistInit ==
    /\ config \in { Settings(m, 1, 0) : m \in StorageModes }
    /\ user_ratings = NoDir /\ user_data = NoDir
    /\ ws_ratings = <<>> /\ ws_users = <<>>
    /\ pe_calls = 0
    /\ pe_session \in {FreshSession, FullSession}
    /\ pe_last = NoCall
    /\ SamplerIdle /\ ValidatorIdle /\ SessionIdle /\ IdIdle /\ ExIdle

\* save_rating(user_id, action_id, scale_values)
SaveRatingCall ==
    /\ pe_calls < MaxCalls
    /\ \E action_id \in PersistVideoIds, scale_values \in PersistScaleValues,
          remote_fault \in RemoteFaultsFor(config.storage_mode),
          local_fault \in LocalFaultsFor(config.storage_mode) :
        \E new_order \in NewKeyOrders(ws_ratings,
                            RatingData(UAB12, action_id, scale_values, pe_session.device_info)) :
          LET r == SaveRating(config.storage_mode, ws_ratings, user_ratings, UAB12,
                              action_id, scale_values, pe_session.device_info,
                              remote_fault, local_fault, new_order)
          IN  /\ ws_ratings' = r.ws
              /\ user_ratings' = r.dir
              /\ pe_last' = [op |-> "save_rating", user_id |-> UAB12,
                             action_id |-> action_id, scale_values |-> scale_values,
                             remote_fault |-> remote_fault, local_fault |-> local_fault,
                             ret |-> r.ret, raised |-> r.raised, trace |-> r.trace]
    /\ pe_calls' = pe_calls + 1
    /\ UNCHANGED <<config, user_data, ws_users, pe_session, smVars, idVars, exVars, vaVars, ssVars>>

\* save_user_data(user)
SaveUserDataCall ==
    /\ pe_calls < MaxCalls
    /\ \E remote_fault \in RemoteFaultsFor(config.storage_mode),
          local_fault \in LocalFaultsFor(config.storage_mode) :
        \E new_order \in NewKeyOrders(ws_users,
                            UserToDict(Participant(UAB12), pe_session.consent_given)) :
          LET r == SaveUserData(config.storage_mode, ws_users, user_data,
                                Participant(UAB12), pe_session.consent_given,
                                remote_fault, local_fault, new_order)
          IN  /\ ws_users' = r.ws
              /\ user_data' = r.dir
              /\ pe_last' = [op |-> "save_user_data", user_id |-> UAB12,
                             action_id |-> <<>>, scale_values |-> <<>>,
                             remote_fault |-> remote_fault, local_fault |-> local_fault,
                             ret |-> r.ret, raised |-> r.raised, trace |-> r.trace]
    /\ pe_calls' = pe_calls + 1
    /\ UNCHANGED <<config, user_ratings, ws_ratings, pe_session, smVars, idVars, exVars, vaVars, ssVars>>

PersistNext == SaveRatingCall \/ SaveUserDataCall

SpecPersist == PersistInit /\ [][PersistNext]_vars

-----------------------------------------------------------------------------
(* Properties of the persistence gateway                                   *)

\* a step that is one call of save_rating or save_user_data
PersistStep == pe_calls' = pe_calls + 1

\* the worksheet gained a data row
RowAppended(ws_before, ws_after) ==
    /\ Len(ws_after) > 1
    /\ Len(ws_after) = (IF Len(ws_before) = 0 THEN 2 ELSE Len(ws_before) + 1)

\* the file was opened once more and holds a complete JSON document
FileCompleted(dir_before, dir_after, name) ==
    \E f \in dir_after.files :
        f.name = name /\ f.complete /\ f.writes = Writes(dir_before, name) + 1

\* the remote backend is enabled and completed its write in this step
RemoteCompleted ==
    /\ config.storage_mode \in {"online", "both"}
    /\ IF pe_last'.op = "save_rating"
       THEN RowAppended(ws_ratings, ws_ratings')
       ELSE RowAppended(ws_users, ws_users')

\* the local backend is enabled and completed its write in this step
LocalCompleted ==
    /\ config.storage_mode \in {"local", "both"}
    /\ IF pe_last'.op = "save_rating"
       THEN FileCompleted(user_ratings, user_ratings',
                pe_last'.user_id \o <<"_">> \o pe_last'.action_id \o <<".json">>)
       ELSE FileCompleted(user_data, user_data', pe_last'.user_id \o <<".json">>)

\* C6: for every storage mode and every combination of backend outcomes,
\* save_rating and save_user_data return true if and only if at least one
\* backend enabled by the mode completed its write.
C6_TrueIffSomeBackendCompleted ==
    [][PersistStep => (pe_last'.ret <=> (RemoteCompleted \/ LocalCompleted))]_vars

\* a call under mode both that returned true although one backend failed
C6_Witness ==
    /\ pe_last.op # "none" /\ config.storage_mode = "both"
    /\ pe_last.remote_fault = "none" /\ pe_last.local_fault = "dump"
    /\ pe_last.ret

\* the key each scale title is stored under
SnakeCased(title) ==
    IF title = TWinLoss THEN <<"win", "_", "or", "_", "loss">> ELSE <<"note">>

\* a save_rating step under mode both whose remote write fails
RemoteFailsUnderBoth ==
    /\ PersistStep /\ pe_last'.op = "save_rating"
    /\ config.storage_mode = "both" /\ pe_last'.remote_fault # "none"

\* the files of user_ratings/ this step wrote
WrittenFiles == user_ratings'.files \ user_ratings.files

\* f is named {user_id}_{video_id}.json and holds user_id, id and one
\* snake-cased key per submitted scale
IsTheRatingFile(f) ==
    /\ f.name = pe_last'.user_id \o <<"_">> \o pe_last'.action_id \o <<".json">>
    /\ f.complete
    /\ DictGet(f.data, <<"user_id">>, None) = Str(pe_last'.user_id)
    /\ DictGet(f.data, <<"id">>, None) = Str(pe_last'.action_id)
    /\ \A i \in 1..Len(pe_last'.scale_values) :
          /\ DictHas(f.data, SnakeCased(pe_last'.scale_values[i].key))
          /\ DictGet(f.data, SnakeCased(pe_last'.scale_values[i].key), None)
                = pe_last'.scale_values[i].value

\* C7 as stated: when storage_mode is both and the remote backend fails,
\* save_rating still returns true and creates exactly one new local file,
\* named {user_id}_{video_id}.json, with user_id, id and the snake-cased keys.
C7_AsStated ==
    [][RemoteFailsUnderBoth =>
          /\ pe_last'.ret
          /\ Cardinality(WrittenFiles) = 1
          /\ \A f \in WrittenFiles :
                /\ IsTheRatingFile(f)
                /\ \A g \in user_ratings.files : g.name # f.name]_vars

\* C7: when storage_mode is both, the remote backend fails and the local
\* write does not fail, save_rating returns true and writes exactly one local
\* file, named {user_id}_{video_id}.json, with user_id, id and one snake-cased
\* key per submitted scale; the file is created, or replaced when a file of
\* that name was there, and every other file is left as it was.
C7_LocalFileWhenRemoteFails ==
    [][(RemoteFailsUnderBoth /\ pe_last'.local_fault = "none") =>
          /\ pe_last'.ret
          /\ Cardinality(WrittenFiles) = 1
          /\ \A f \in WrittenFiles :
                /\ IsTheRatingFile(f)
                /\ \A g \in user_ratings.files :
                      g.name # f.name => g \in user_ratings'.files]_vars

\* a rating with a two-word title saved locally while the remote write failed
C7_Witness ==
    /\ pe_last.op = "save_rating" /\ config.storage_mode = "both"
    /\ pe_last.remote_fault = "before" /\ pe_last.local_fault = "none"
    /\ pe_last.scale_values # <<>>
    /\ pe_last.ret
    /\ \E f \in user_ratings.files :
          f.name = pe_last.user_id \o <<"_">> \o pe_last.action_id \o <<".json">>

\* C8: each backend enabled by storage_mode is attempted, whatever happens
\* in the other one, and no failure inside a backend leaves save_rating or
\* save_user_data as an exception.
C8_BackendsIndependent ==
    pe_last.op # "none" =>
        /\ ~pe_last.raised
        /\ (config.storage_mode \in {"online", "both"}
                <=> "gsheets" \in Range(pe_last.trace))
        /\ (config.storage_mode \in {"local", "both"}
                <=> "local" \in Range(pe_last.trace))

\* the local write was attempted after the remote write had failed half-way
C8_Witness ==
    /\ pe_last.op # "none" /\ config.storage_mode = "both"
    /\ pe_last.remote_fault = "row"
    /\ "local" \in Range(pe_last.trace)
    /\ ~pe_last.raised

\* C28: after save_rating(u, v, values) has returned true,
\* get_rated_videos_for_user(u') contains v for u' = u and for u' = u in lower
\* case, whichever backend took the write and whatever else is stored.
C28_SavedRatingIsFound ==
    (pe_last.op = "save_rating" /\ pe_last.ret) =>
        \A user_id \in {pe_last.user_id, Lower(pe_last.user_id)} :
            pe_last.action_id \in
                GetRatedVideosForUser(ws_ratings, user_ratings, user_id, FALSE)

\* the worksheet the call of this step writes to, before and after
SheetBefore == IF pe_last'.op = "save_rating" THEN ws_ratings ELSE ws_users
SheetAfter  == IF pe_last'.op = "save_rating" THEN ws_ratings' ELSE ws_users'

\* the record the call of this step hands to the worksheet
RecordWritten ==
    WithTimestamp(
        IF pe_last'.op = "save_rating"
        THEN RatingData(pe_last'.user_id, pe_last'.action_id, pe_last'.scale_values,
                        pe_session.device_info)
        ELSE UserToDict(Participant(pe_last'.user_id), pe_session.consent_given))

\* the header `after` keeps every column of `before` at its position
HeaderKept(before, after) ==
    /\ Len(after) >= Len(before)
    /\ \A i \in 1..Len(before) : after[i] = before[i]

\* C16: the first write to a worksheet sets the header to the record's keys;
\* each later write keeps every header column at its position, appends the
\* record's new keys after them, and writes one row with the record's value
\* under each of its keys and a blank under every other column.
C16_HeaderOnlyGrows ==
    [][PersistStep =>
         \A before \in {SheetBefore}, after \in {SheetAfter}, record \in {RecordWritten} :
         LET written == config.storage_mode \in {"online", "both"}
                            /\ pe_last'.remote_fault = "none"
         IN  IF before = <<>>
             THEN written =>
                    /\ Len(after) = 2
                    /\ after[1] = Keys(record)
                    /\ after[2] = [i \in 1..Len(record) |-> record[i].value]
             ELSE /\ after # <<>>
                  /\ HeaderKept(before[1], after[1])
                  /\ \A r \in 2..Len(before) : after[r] = before[r]
                  /\ written =>
                       LET header == after[1]
                           row == after[Len(after)]
                       IN  /\ Len(after) = Len(before) + 1
                           /\ Range(header) = Range(before[1]) \cup Range(Keys(record))
                           /\ Cardinality(Range(header)) = Len(header)
                           /\ Len(row) = Len(header)
                           /\ \A i \in 1..Len(header) :
                                 row[i] = DictGet(record, header[i], Str(""))]_vars

\* two ratings in the sheet, the second of which brought two new columns
C16_Witness ==
    /\ Len(ws_ratings) = 3
    /\ Len(ws_ratings[1]) = Len(ws_ratings[2]) + 2
    /\ Len(ws_ratings[3]) = Len(ws_ratings[1])

-----------------------------------------------------------------------------
(* Specification of the application: browser sessions of registered        *)
(* participants that log in and rate videos. Familiarization is switched   *)
(* off (enable_familiarization: false), the metadata file is not readable, *)
(* and at most MaxCalls ratings are submitted for saving.                  *)

\* the video directory
AllVideos == << E1 \o <<".mp4">>, Event001 \o <<".mp4">> >>

\* the ids typed into the login form; the last one was never registered
UZZ99 == <<"ZZ99">>
TypedUserIds == {UAB12, UCD34, UZZ99}

\* one required discrete scale
RatingWinLoss ==
    [format |-> "dict", groups |-> <<>>,
     scales |-> << Scale(TWinLoss, "discrete", "", "true", "low", TRUE) >>]

\* the stores after the two participants were registered under a mode
Registered(storage_mode) ==
    LET first == SaveUserData(storage_mode, <<>>, NoDir, Participant(UAB12), TRUE,
                              "none", "none", <<>>)
    IN  SaveUserData(storage_mode, first.ws, first.dir, Participant(UCD34), TRUE,
                     "none", "none", <<>>)

\* the pages app.py renders (lines 71-97)
DispatchedPages ==
    {"welcome", "login", "questionnaire", "pre_familiarization", "familiarization",
     "post_familiarization", "videoplayer"}

\* the rating interface of the current video is on screen
RatingInterfaceShown ==
    /\ ss_page = "videoplayer" /\ ss_video_initialized # "absent"
    /\ ss_videos_to_rate # <<>>
    /\ ss_current_video_index < Len(ss_videos_to_rate)

\* display_video_rating_interface: the dicts it can return; with metadata at
\* hand and display_pitch set the function falls through to "return {}"
DisplayedScaleValues(rating_scales, display_pitch, metadata) ==
    IF display_pitch /\ metadata.rows # <<>>
    THEN { <<>> } ELSE ScaleValueMaps(rating_scales)

AppInit ==
    /\ config \in { Settings(m, 1, 0) : m \in StorageModes }
    /\ user_ratings = NoDir /\ ws_ratings = <<>>
    /\ user_data = Registered(config.storage_mode).dir
    /\ ws_users = Registered(config.storage_mode).ws
    /\ va_pc = "idle" /\ va_yaml = RatingWinLoss /\ va_session = NoSession
    /\ va_values = <<>> /\ va_result = NoResult
    /\ SamplerIdle /\ PersistIdle /\ SessionStart /\ IdIdle /\ ExIdle

\* a new browser session: init_session_state (app.py lines 41-57)
NewSession ==
    /\ ss_page' = "welcome" /\ ss_user_id' = <<>> /\ ss_video_initialized' = "absent"
    /\ ss_videos_to_rate' = <<>> /\ ss_current_video_index' = 0
    /\ ss_confirm_back' = FALSE /\ ss_session_ratings' = <<>> /\ ss_handler' = NoEvent
    /\ ss_user_id_confirmed' = FALSE /\ ss_age' = 0 /\ ss_submitted' = 0
    /\ va_session' = NoSession /\ va_values' = <<>> /\ va_result' = NoResult
    /\ pe_session' = FreshSession
    /\ UNCHANGED <<va_pc, va_yaml, pe_calls, pe_last, stVars, smVars, idVars, exVars>>

\* the welcome page leads to the login page
WelcomeStart ==
    /\ ss_page = "welcome"
    /\ ss_page' = "login"
    /\ ss_handler' = NoEvent
    /\ UNCHANGED <<ss_user_id, ss_video_initialized, ss_videos_to_rate,
                   ss_current_video_index, ss_confirm_back, ss_session_ratings,
                   ss_submitted, ssForm, smVars, idVars, exVars, vaVars, stVars, peVars>>

\* login.show, Next with "Yes, I have participated before"
LoginReturning ==
    /\ ss_page = "login"
    /\ \E user_id_input \in TypedUserIds, read_fault \in BOOLEAN :
          IF UserExists(ws_users, user_data, user_ratings, user_id_input, read_fault)
          THEN /\ ss_user_id' = user_id_input
               /\ ss_page' = IF config.enable_familiarization
                             THEN "pre_familiarization" ELSE "videoplayer"
          ELSE UNCHANGED <<ss_user_id, ss_page>>
    /\ ss_handler' = NoEvent
    /\ UNCHANGED <<ss_video_initialized, ss_videos_to_rate, ss_current_video_index,
                   ss_confirm_back, ss_session_ratings, ss_submitted, ssForm,
                   smVars, idVars, exVars, vaVars, stVars, peVars>>

\* login.show, Next with "No, this is my first time"
LoginNew ==
    /\ ss_page = "login"
    /\ ss_page' = "consent"
    /\ ss_handler' = NoEvent
    /\ UNCHANGED <<ss_user_id, ss_video_initialized, ss_videos_to_rate,
                   ss_current_video_index, ss_confirm_back, ss_session_ratings,
                   ss_submitted, ssForm, smVars, idVars, exVars, vaVars, stVars, peVars>>

\* login.show, Back
LoginBack ==
    /\ ss_page = "login"
    /\ ss_page' = "welcome"
    /\ ss_handler' = NoEvent
    /\ UNCHANGED <<ss_user_id, ss_video_initialized, ss_videos_to_rate,
                   ss_current_video_index, ss_confirm_back, ss_session_ratings,
                   ss_submitted, ssForm, smVars, idVars, exVars, vaVars, stVars, peVars>>

\* app.py lines 99-101: "Unknown page", button "Go to Welcome"
UnknownPageGoToWelcome ==
    /\ ss_page \notin DispatchedPages
    /\ ss_page' = "welcome"
    /\ ss_handler' = [NoEvent EXCEPT !.name = "navigate_to"]
    /\ UNCHANGED <<ss_user_id, ss_video_initialized, ss_videos_to_rate,
                   ss_current_video_index, ss_confirm_back, ss_session_ratings,
                   ss_submitted, ssForm, smVars, idVars, exVars, vaVars, stVars, peVars>>

\* a faulty variant of the test: the last video is skipped
NothingLeftOffByOne(videos_to_rate, current_video_index) ==
    videos_to_rate = <<>> \/ current_video_index + 1 >= Len(videos_to_rate)

\* "if not st.session_state.get('videos_to_rate')" and
\* "if current_video_index >= len(videos)" (lines 235, 244)
NothingLeft(videos_to_rate, current_video_index) ==
    videos_to_rate = <<>> \/ current_video_index >= Len(videos_to_rate)

\* videoplayer.show (lines 222-272): initialise on first entry, then leave
\* for the completion page when nothing is left to rate; a script run that
\* only draws the interface again is no event of the session
VideoplayerShow ==
    /\ ss_page = "videoplayer"
    /\ IF ss_video_initialized = "absent"
       THEN \E read_fault \in BOOLEAN :
              \E videos \in InitializeVideoPlayer(config, AllVideos, MetaNone, ws_ratings,
                                                  user_ratings, ss_user_id, read_fault) :
                /\ ss_videos_to_rate' = videos
                /\ ss_current_video_index' = 0
                /\ ss_submitted' = 0
                /\ ss_video_initialized' = "True"
                /\ va_session' = SessionRatingState(va_yaml)
                /\ pe_session' = [pe_session EXCEPT !.device_info = TRUE]
                /\ ss_handler' = [NoEvent EXCEPT !.name = "initialize_video_player"]
                /\ ss_page' = IF NothingLeft(videos, 0) THEN "completion" ELSE "videoplayer"
       ELSE /\ ss_page' = IF NothingLeft(ss_videos_to_rate, ss_current_video_index)
                          THEN "completion" ELSE "videoplayer"
            /\ ss_handler' = IF NothingLeft(ss_videos_to_rate, ss_current_video_index)
                             THEN [NoEvent EXCEPT !.name = "show"] ELSE ss_handler
            /\ UNCHANGED <<ss_videos_to_rate, ss_current_video_index, ss_submitted,
                           ss_video_initialized, va_session, pe_session>>
    /\ UNCHANGED <<ss_user_id, ss_confirm_back, ss_session_ratings, ssForm,
                   va_pc, va_yaml, va_values, va_result, pe_calls, pe_last,
                   stVars, smVars, idVars, exVars>>

\* display_rating_interface, "Submit Rating" (lines 551-579); the backends
\* fail before they write anything, or not at all
SubmitRating ==
    /\ RatingInterfaceShown
    /\ pe_calls < MaxCalls
    /\ \E scale_values \in DisplayedScaleValues(va_session.rating_scales,
                                                config.display_pitch, MetaNone),
          remote_fault \in RemoteFaultsFor(config.storage_mode) \ {"row"},
          local_fault \in LocalFaultsFor(config.storage_mode) \ {"dump"} :
      \E new_order \in NewKeyOrders(ws_ratings,
                          RatingData(ss_user_id,
                                     SplitExt(ss_videos_to_rate[ss_current_video_index + 1]),
                                     ScaleItems(va_session.rating_scales, scale_values),
                                     pe_session.device_info)) :
        LET action_id == SplitExt(ss_videos_to_rate[ss_current_video_index + 1])
            validation == ValidateRatings(va_session, scale_values)
            passed == ~validation.raised /\ validation.errors = <<>>
            items == ScaleItems(va_session.rating_scales, scale_values)
            r == SaveRating(config.storage_mode, ws_ratings, user_ratings, ss_user_id,
                            action_id, items, pe_session.device_info,
                            remote_fault, local_fault, new_order)
            saved == passed /\ r.ret
            win_loss_prediction == Get(scale_values, TWinLoss)
        IN  /\ va_values' = scale_values
            /\ va_result' = validation
            /\ ws_ratings' = IF passed THEN r.ws ELSE ws_ratings
            /\ user_ratings' = IF passed THEN r.dir ELSE user_ratings
            /\ pe_calls' = IF passed THEN pe_calls + 1 ELSE pe_calls
            /\ pe_last' = IF passed
                          THEN [op |-> "save_rating", user_id |-> ss_user_id,
                                action_id |-> action_id, scale_values |-> items,
                                remote_fault |-> remote_fault,
                                local_fault |-> local_fault,
                                ret |-> r.ret, raised |-> r.raised, trace |-> r.trace]
                          ELSE pe_last
            /\ ss_session_ratings' =
                  IF saved /\ win_loss_prediction # None
                  THEN DictPut(ss_session_ratings, action_id, win_loss_prediction)
                  ELSE ss_session_ratings
            /\ ss_current_video_index' = AdvancedIndex(ss_current_video_index, saved)
            /\ ss_submitted' = IF saved THEN ss_submitted + 1 ELSE ss_submitted
            /\ ss_confirm_back' = IF saved THEN FALSE ELSE ss_confirm_back
            /\ ss_handler' = [name |-> "submit", index |-> ss_current_video_index,
                              save_called |-> passed, saved |-> saved]
    /\ UNCHANGED <<ss_page, ss_user_id, ss_video_initialized, ss_videos_to_rate,
                   va_pc, va_yaml, va_session, pe_session, ssForm,
                   config, user_data, ws_users, smVars, idVars, exVars>>

\* display_rating_interface, "Back to Questionnaire" (lines 540-548)
BackToQuestionnaire ==
    /\ RatingInterfaceShown
    /\ IF ss_confirm_back
       THEN /\ ss_page' = "questionnaire"
            /\ ss_user_id_confirmed' = FALSE
            /\ ss_video_initialized' = "False"
            /\ UNCHANGED ss_confirm_back
       ELSE /\ ss_confirm_back' = TRUE
            /\ UNCHANGED <<ss_page, ss_video_initialized, ss_user_id_confirmed>>
    /\ ss_handler' = [NoEvent EXCEPT !.name = "back"]
    /\ UNCHANGED <<ss_user_id, ss_videos_to_rate, ss_current_video_index,
                   ss_session_ratings, ss_submitted, ss_age, smVars, idVars, exVars, vaVars, stVars, peVars>>

\* show_questionnaire_form, Back (lines 169-171)
QuestionnaireBack ==
    /\ ss_page = "questionnaire" /\ ~ss_user_id_confirmed
    /\ ss_page' = "login"
    /\ ss_handler' = NoEvent
    /\ UNCHANGED <<ss_user_id, ss_video_initialized, ss_videos_to_rate,
                   ss_current_video_index, ss_confirm_back, ss_session_ratings,
                   ss_submitted, ssForm, smVars, idVars, exVars, vaVars, stVars, peVars>>

\* the answers to the age question
Ages == {30, 31}

\* show_questionnaire_form, "Generate User ID" (lines 152-154, 173-196): the
\* answer is stored in the User object; the panel is shown when user.user_id
\* is set
QuestionnaireNext ==
    /\ ss_page = "questionnaire" /\ ~ss_user_id_confirmed
    /\ \E age \in Ages : ss_age' = age
    /\ ss_user_id_confirmed' = (ss_user_id # <<>>)
    /\ ss_handler' = NoEvent
    /\ UNCHANGED <<ss_page, ss_user_id, ss_video_initialized, ss_videos_to_rate,
                   ss_current_video_index, ss_confirm_back, ss_session_ratings,
                   ss_submitted, smVars, idVars, exVars, vaVars, stVars, peVars>>

\* show_confirmation_panel, "Back to Form" (lines 221-223)
PanelBackToForm ==
    /\ ss_page = "questionnaire" /\ ss_user_id_confirmed
    /\ ss_user_id_confirmed' = FALSE
    /\ ss_handler' = NoEvent
    /\ UNCHANGED <<ss_page, ss_user_id, ss_video_initialized, ss_videos_to_rate,
                   ss_current_video_index, ss_confirm_back, ss_session_ratings,
                   ss_submitted, ss_age, smVars, idVars, exVars, vaVars, stVars, peVars>>

\* the User object of the session
SessionUser == SetFieldValue([NewUser EXCEPT !.user_id = ss_user_id], <<"age">>, Num(ss_age))

\* show_confirmation_panel, "Understood. Proceed" (lines 226-240); the
\* backends fail before they write anything, or not at all
PanelProceed ==
    /\ ss_page = "questionnaire" /\ ss_user_id_confirmed
    /\ pe_calls < MaxCalls
    /\ \E remote_fault \in RemoteFaultsFor(config.storage_mode) \ {"row"},
          local_fault \in LocalFaultsFor(config.storage_mode) \ {"dump"} :
        \E new_order \in NewKeyOrders(ws_users,
                            UserToDict(SessionUser, pe_session.consent_given)) :
          LET r == SaveUserData(config.storage_mode, ws_users, user_data, SessionUser,
                                pe_session.consent_given, remote_fault, local_fault,
                                new_order)
          IN  /\ ws_users' = r.ws
              /\ user_data' = r.dir
              /\ pe_last' = [op |-> "save_user_data", user_id |-> ss_user_id,
                             action_id |-> <<>>, scale_values |-> <<>>,
                             remote_fault |-> remote_fault, local_fault |-> local_fault,
                             ret |-> r.ret, raised |-> r.raised, trace |-> r.trace]
              /\ ss_page' = IF ~r.ret THEN "questionnaire"
                            ELSE IF config.enable_familiarization
                            THEN "pre_familiarization" ELSE "videoplayer"
    /\ pe_calls' = pe_calls + 1
    /\ ss_handler' = NoEvent
    /\ UNCHANGED <<ss_user_id, ss_video_initialized, ss_videos_to_rate,
                   ss_current_video_index, ss_confirm_back, ss_session_ratings,
                   ss_submitted, ssForm, config, user_ratings, ws_ratings, pe_session,
                   smVars, idVars, exVars, vaVars>>

Next ==
    \/ NewSession \/ WelcomeStart
    \/ LoginReturning \/ LoginNew \/ LoginBack
    \/ UnknownPageGoToWelcome
    \/ VideoplayerShow \/ SubmitRating \/ BackToQuestionnaire
    \/ QuestionnaireBack \/ QuestionnaireNext \/ PanelBackToForm \/ PanelProceed

Spec == AppInit /\ [][Next]_vars

-----------------------------------------------------------------------------
(* Specification of the rating loop of one session: a registered           *)
(* participant has just logged in                                          *)

\* the rating stores after participant AB12 has rated the videos `ids`, one
\* after the other, under a storage mode and without a fault
RECURSIVE RatedBefore(_, _, _, _)
RatedBefore(storage_mode, ws, dir, ids) ==
    IF ids = <<>> THEN [ws |-> ws, dir |-> dir]
    ELSE LET r == SaveRating(storage_mode, ws, dir, UAB12, Head(ids),
                             << Item(TWinLoss, Str("Win")) >>, TRUE, "none", "none", <<>>)
         IN  RatedBefore(storage_mode, r.ws, r.dir, Tail(ids))

\* what AB12 has rated in earlier sessions
EarlierRatings == { <<>>, <<E1>>, <<E1, Event001>> }

LoopInit ==
    /\ config \in { Settings(m, 1, 0) : m \in StorageModes }
    /\ \E ids \in EarlierRatings :
          /\ user_ratings = RatedBefore(config.storage_mode, <<>>, NoDir, ids).dir
          /\ ws_ratings = RatedBefore(config.storage_mode, <<>>, NoDir, ids).ws
    /\ user_data = Registered(config.storage_mode).dir
    /\ ws_users = Registered(config.storage_mode).ws
    /\ va_pc = "idle" /\ va_yaml = RatingWinLoss /\ va_session = NoSession
    /\ va_values = <<>> /\ va_result = NoResult
    /\ SamplerIdle /\ PersistIdle /\ IdIdle /\ ExIdle
    /\ ss_user_id_confirmed = FALSE /\ ss_age = 0 /\ ss_submitted = 0
    /\ ss_page = "videoplayer" /\ ss_user_id \in {UAB12, UCD34}
    /\ ss_video_initialized = "absent"
    /\ ss_videos_to_rate = <<>> /\ ss_current_video_index = 0 /\ ss_confirm_back = FALSE
    /\ ss_session_ratings = <<>> /\ ss_handler = NoEvent

LoopNext == VideoplayerShow \/ SubmitRating \/ BackToQuestionnaire

SpecLoop == LoopInit /\ [][LoopNext]_vars

-----------------------------------------------------------------------------
(* Properties of the rating loop and of the sessions                       *)

\* the last script run was a Submit whose validation returned no errors
SubmitPassedValidation ==
    /\ ss_handler.name = "submit"
    /\ ~va_result.raised /\ va_result.errors = <<>>

\* the last script run was a Submit that moved on to the next video
SubmitAdvanced ==
    /\ ss_handler.name = "submit"
    /\ ss_current_video_index = ss_handler.index + 1

\* C5 as stated: on every Submit, current_video_index is incremented if and
\* only if the validator returned no errors for the submitted values.
C5_AsStated ==
    ss_handler.name = "submit" => (SubmitAdvanced <=> SubmitPassedValidation)

\* C5: on every Submit, current_video_index is incremented (by one) if and
\* only if the validator returned no errors and save_rating returned true;
\* otherwise it keeps its value.
C5_AdvanceIffValidAndSaved ==
    ss_handler.name = "submit" =>
        /\ SubmitAdvanced <=>
              (SubmitPassedValidation /\ pe_last.op = "save_rating" /\ pe_last.ret)
        /\ ~SubmitAdvanced => ss_current_video_index = ss_handler.index

\* a Submit whose values passed validation but whose save failed
C5_Witness ==
    /\ SubmitPassedValidation
    /\ pe_last.op = "save_rating" /\ ~pe_last.ret
    /\ ss_current_video_index = ss_handler.index

\* the worksheet holds a rating of video `id` by `user`
RatedInSheet(user, id) ==
    /\ Len(ws_ratings) > 1
    /\ \E r \in 2..Len(ws_ratings) :
          /\ Cell(ws_ratings, r, <<"user_id">>) = Str(user)
          /\ Cell(ws_ratings, r, <<"id">>) = Str(id)

\* a local file holds a rating of video `id` by `user`
RatedInFiles(user, id) ==
    \E f \in user_ratings.files :
        /\ f.complete
        /\ DictGet(f.data, <<"user_id">>, None) = Str(user)
        /\ DictGet(f.data, <<"id">>, None) = Str(id)

\* the video file name without its extension
VideoId(v) == SubSeq(v, 1, Len(v) - 1)

\* C9: each store holds at most one rating record per (user_id, video_id), no
\* rating file is written a second time, and the video on screen is never one
\* the participant has already rated.
C9_OneRatingPerUserAndVideo ==
    /\ \A r1, r2 \in 2..Len(ws_ratings) :
          (/\ Cell(ws_ratings, r1, <<"user_id">>) = Cell(ws_ratings, r2, <<"user_id">>)
           /\ Cell(ws_ratings, r1, <<"id">>) = Cell(ws_ratings, r2, <<"id">>)) => r1 = r2
    /\ \A f \in user_ratings.files : f.writes <= 1
    /\ RatingInterfaceShown =>
          LET id == VideoId(ss_videos_to_rate[ss_current_video_index + 1])
          IN  ~RatedInSheet(ss_user_id, id) /\ ~RatedInFiles(ss_user_id, id)

\* the number of participants with a persisted rating of video `id`
RatingCount(id) ==
    Cardinality({ u \in {UAB12, UCD34} : RatedInSheet(u, id) \/ RatedInFiles(u, id) })

\* C10: right after the rating loop was initialised, no video of the list has
\* min_ratings_per_video or more persisted ratings.
C10_FullyRatedExcluded ==
    ss_handler.name = "initialize_video_player" =>
        \A i \in 1..Len(ss_videos_to_rate) :
            RatingCount(VideoId(ss_videos_to_rate[i])) < config.min_ratings_per_video

\* the step is a script run of videoplayer.show
ShowStep == ss_handler'.name \in {"initialize_video_player", "show"}

\* C14: the rating loop sets the current page to completion exactly when it is
\* rendered with an empty sampled list or with current_video_index >= the
\* length of the list; for a list of n > 0 videos that is after exactly n
\* successful submissions and not before.
C14_CompletionWhenListExhausted ==
    /\ [](ss_page = "completion" => ss_submitted = Len(ss_videos_to_rate))
    /\ [][/\ ShowStep =>
               (ss_page' = "completion" <=>
                   (\/ ss_videos_to_rate' = <<>>
                    \/ ss_current_video_index' >= Len(ss_videos_to_rate')))
          /\ (ss_page # "completion" /\ ss_page' = "completion") => ShowStep]_vars

\* the completion page after both videos of the list were rated
C14_Witness ==
    /\ ss_page = "completion" /\ ss_handler.name = "show"
    /\ Len(ss_videos_to_rate) = 2 /\ ss_submitted = 2

\* C13: every value a page transition assigns to the current page is rendered
\* by a page of its own, so the "Unknown page" branch is never reached.
C13_DispatchExhaustive == ss_page \in DispatchedPages

\* a step that opens a new browser session
NewSessionStep == ss_video_initialized # "absent" /\ ss_video_initialized' = "absent"

\* C15: once the current page is completion, no participant action changes
\* the current page to any other value.
C15_CompletionTerminal ==
    [][(ss_page = "completion" /\ ~NewSessionStep) => ss_page' = "completion"]_vars

\* the step is a Submit that did not end in a successful save
FailedSubmitStep == ss_handler'.name = "submit" /\ ~ss_handler'.saved

\* C21: a Submit that fails, on validation or because save_rating returned
\* false, leaves current_video_index and session_ratings unchanged and keeps
\* the same video on screen; after a validation failure no store has changed
\* and save_rating was not called; after a save failure save_rating was called
\* exactly once, and no step other than a Submit calls it.
C21_FailedSubmitKeepsVideo ==
    [][/\ FailedSubmitStep =>
            /\ ss_current_video_index' = ss_current_video_index
            /\ ss_session_ratings' = ss_session_ratings
            /\ ss_videos_to_rate' = ss_videos_to_rate
            /\ ss_page' = ss_page /\ RatingInterfaceShown'
            /\ ~ss_handler'.save_called =>
                  /\ (va_result'.raised \/ va_result'.errors # <<>>)
                  /\ pe_calls' = pe_calls
                  /\ UNCHANGED <<ws_ratings, user_ratings, ws_users, user_data>>
            /\ ss_handler'.save_called =>
                  /\ pe_calls' = pe_calls + 1
                  /\ pe_last'.op = "save_rating" /\ ~pe_last'.ret
       /\ ss_handler'.name # "submit" =>
            /\ pe_last'.op = "save_rating" => pe_last' = pe_last
            /\ UNCHANGED <<ws_ratings, user_ratings>>]_vars

\* a Submit blocked by the validator, after a Submit whose save had failed
C21_Witness ==
    /\ ss_handler.name = "submit" /\ ~ss_handler.save_called
    /\ va_result.errors # <<>>
    /\ pe_last.op = "save_rating" /\ ~pe_last.ret
    /\ RatingInterfaceShown

\* C22: the rating loop is left through "Back to Questionnaire" only by the
\* second of two consecutive clicks of that button on the current visit: the
\* action of the session just before the leaving click was a Back click on
\* the rating page.
C22_BackNeedsTwoConsecutiveClicks ==
    [][(ss_page = "videoplayer" /\ ss_page' = "questionnaire") =>
            ss_handler.name = "back"]_vars

\* C26: after a confirmed "Back to Questionnaire" has set video_initialized
\* to False, the first script run on the rating page that changes the
\* session is initialize_video_player, which samples the list anew and sets
\* current_video_index to 0.
C26_ReinitialisedAfterBack ==
    [][(ss_page = "videoplayer" /\ ss_video_initialized = "False" /\ ~NewSessionStep) =>
            /\ ss_handler'.name = "initialize_video_player"
            /\ ss_video_initialized' = "True" /\ ss_current_video_index' = 0]_vars

\* the step opens a new browser session: the welcome page of a fresh session
\* state, without any handler of a page having run
BrowserReopened ==
    /\ ss_page' = "welcome" /\ ss_handler' = NoEvent
    /\ ss_user_id' = <<>> /\ ss_video_initialized' = "absent"

\* C27: a new participant gets from the login page through consent and the
\* questionnaire to the rating loop: the consent page is left only for the
\* login page (Back) or, with consent given, for the questionnaire.
C27_NewParticipantPassesConsent ==
    [][(ss_page = "consent" /\ ~BrowserReopened) =>
            ss_page' \in {"consent", "login", "questionnaire"}]_vars

\* the rows of the users worksheet `ws` that belong to `user`
UserRows(ws, user) ==
    IF Len(ws) < 2 THEN <<>>
    ELSE SelectSeq(Tail(ws), LAMBDA row : row[IndexOf(ws[1], <<"user_id">>)] = Str(user))

\* the files of the directory `dir` that hold the record of `user`
UserFiles(dir, user) == { f \in dir.files : f.name = user \o <<".json">> }

\* C20: once save_user_data has succeeded for a user_id, no sequence of page
\* actions changes the stored field values of that user's record or stores a
\* second record for that user_id.
C20_UserRecordImmutable ==
    \A user \in {UAB12, UCD34} :
        /\ UserRows(ws_users, user) = UserRows(Registered(config.storage_mode).ws, user)
        /\ UserFiles(user_data, user) = UserFiles(Registered(config.storage_mode).dir, user)

-----------------------------------------------------------------------------
(* Specification of the practice trials: a registered participant has      *)
(* logged in with familiarization switched on and is on the                *)
(* pre-familiarization page. The page post_familiarization is not part of  *)
(* the sources at hand; the specification ends where it is reached.        *)

\* the practice videos, as os.listdir returns them after the sort
PracticeVideos == << <<"p1", ".mp4">>, <<"p2", ".mp4">> >>

\* what the main rating loop keeps in the session
ssLoop == <<ss_user_id, ss_video_initialized, ss_videos_to_rate, ss_current_video_index,
            ss_confirm_back, ss_session_ratings, ss_submitted>>

FamiliarizationInit ==
    /\ config \in { [Settings(m, 1, 0) EXCEPT !.enable_familiarization = TRUE] :
                     m \in StorageModes }
    /\ user_ratings = NoDir /\ ws_ratings = <<>>
    /\ user_data = Registered(config.storage_mode).dir
    /\ ws_users = Registered(config.storage_mode).ws
    /\ va_pc = "idle" /\ va_yaml \in {RatingWinLoss, RatingLegacy}
    /\ va_session = NoSession /\ va_values = <<>> /\ va_result = NoResult
    /\ SamplerIdle /\ PersistIdle /\ IdIdle /\ FamiliarizationIdle /\ CoIdle
    /\ ss_user_id_confirmed = FALSE /\ ss_age = 0 /\ ss_submitted = 0
    /\ ss_page = "pre_familiarization" /\ ss_user_id = UAB12
    /\ ss_video_initialized = "absent"
    /\ ss_videos_to_rate = <<>> /\ ss_current_video_index = 0 /\ ss_confirm_back = FALSE
    /\ ss_session_ratings = <<>> /\ ss_handler = NoEvent

\* pre_familiarization.show, "Back to Questionnaire" (lines 53-61)
PreFamiliarizationBack ==
    /\ ss_page = "pre_familiarization"
    /\ IF fa_confirm_back_pre
       THEN /\ ss_page' = "questionnaire"
            /\ ss_user_id_confirmed' = FALSE
            /\ UNCHANGED fa_confirm_back_pre
       ELSE /\ fa_confirm_back_pre' = TRUE
            /\ UNCHANGED <<ss_page, ss_user_id_confirmed>>
    /\ ss_handler' = [NoEvent EXCEPT !.name = "back"]
    /\ UNCHANGED <<ssLoop, ss_age, fa_initialized, fa_videos, fa_index, fa_confirm_back,
                   fa_result, coVars, smVars, idVars, vaVars, stVars, peVars>>

\* pre_familiarization.show, "Begin Practice Trials" (lines 63-67)
BeginPracticeTrials ==
    /\ ss_page = "pre_familiarization"
    /\ ss_page' = "familiarization"
    /\ fa_confirm_back_pre' = FALSE
    /\ ss_handler' = NoEvent
    /\ UNCHANGED <<ssLoop, ssForm, fa_initialized, fa_videos, fa_index, fa_confirm_back,
                   fa_result, coVars, smVars, idVars, vaVars, stVars, peVars>>

\* the practice interface of the current video is on screen
FamiliarizationInterfaceShown ==
    /\ ss_page = "familiarization" /\ fa_initialized # "absent"
    /\ fa_videos # <<>> /\ fa_index < Len(fa_videos)

\* familiarization.show (lines 168-232) with initialize_familiarization
\* (lines 234-270): initialise on first entry, then leave for the
\* post-familiarization page when every practice video was shown
FamiliarizationShow ==
    /\ ss_page = "familiarization"
    /\ IF fa_initialized = "absent"
       THEN \E all_videos \in {<<>>, PracticeVideos} :
                /\ va_session' = SessionRatingState(va_yaml)
                /\ fa_videos' = all_videos
                /\ fa_index' = 0
                /\ fa_initialized' = "True"
                /\ UNCHANGED ss_page
                /\ ss_handler' = [NoEvent EXCEPT !.name = "initialize_familiarization"]
       ELSE IF fa_videos # <<>> /\ fa_index >= Len(fa_videos)
       THEN /\ ss_page' = "post_familiarization"
            /\ fa_initialized' = "False"
            /\ ss_handler' = NoEvent
            /\ UNCHANGED <<va_session, fa_videos, fa_index>>
       ELSE UNCHANGED <<ss_page, ss_handler, va_session, fa_videos, fa_index, fa_initialized>>
    /\ UNCHANGED <<ssLoop, ssForm, fa_confirm_back, fa_confirm_back_pre, fa_result,
                   va_pc, va_yaml, va_values, va_result, coVars, smVars, idVars, stVars, peVars>>

\* familiarization.show, "Back to Pre-Familiarization" of the screen shown
\* when no practice video was found (lines 194-198)
FamiliarizationBackToPre ==
    /\ ss_page = "familiarization" /\ fa_initialized # "absent" /\ fa_videos = <<>>
    /\ ss_page' = "pre_familiarization"
    /\ fa_initialized' = "False"
    /\ ss_handler' = NoEvent
    /\ UNCHANGED <<ssLoop, ssForm, fa_videos, fa_index, fa_confirm_back,
                   fa_confirm_back_pre, fa_result, coVars, smVars, idVars, vaVars, stVars, peVars>>

\* a faulty variant: a practice trial is skipped
NextPracticeIndexSkipping(familiarization_video_index) == familiarization_video_index + 2

\* "st.session_state.familiarization_video_index += 1" (line 435)
NextPracticeIndex(familiarization_video_index) == familiarization_video_index + 1

\* display_familiarization_interface, "Continue" (lines 423-437)
FamiliarizationContinue ==
    /\ FamiliarizationInterfaceShown
    /\ \E scale_values \in ScaleValueMaps(va_session.rating_scales) :
        LET validation == ValidateFamiliarizationRatings(va_session, scale_values)
            passed == ~validation.raised /\ validation.errors = <<>>
        IN  /\ va_values' = scale_values
            /\ fa_result' = validation
            /\ fa_index' = IF passed THEN NextPracticeIndex(fa_index) ELSE fa_index
            /\ fa_confirm_back' = IF passed THEN FALSE ELSE fa_confirm_back
            /\ ss_handler' = [name |-> "continue", index |-> fa_index,
                              save_called |-> FALSE, saved |-> FALSE]
    /\ UNCHANGED <<ss_page, ssLoop, ssForm, fa_initialized, fa_videos, fa_confirm_back_pre,
                   va_pc, va_yaml, va_session, va_result, coVars, smVars, idVars, stVars, peVars>>

\* display_familiarization_interface, "Back to Questionnaire" (lines 412-421)
FamiliarizationBack ==
    /\ FamiliarizationInterfaceShown
    /\ IF fa_confirm_back
       THEN /\ ss_page' = "questionnaire"
            /\ ss_user_id_confirmed' = FALSE
            /\ fa_initialized' = "False"
            /\ UNCHANGED fa_confirm_back
       ELSE /\ fa_confirm_back' = TRUE
            /\ UNCHANGED <<ss_page, ss_user_id_confirmed, fa_initialized>>
    /\ ss_handler' = [NoEvent EXCEPT !.name = "back"]
    /\ UNCHANGED <<ssLoop, ss_age, fa_videos, fa_index, fa_confirm_back_pre, fa_result,
                   coVars, smVars, idVars, vaVars, stVars, peVars>>

FamiliarizationNext ==
    \/ PreFamiliarizationBack \/ BeginPracticeTrials
    \/ FamiliarizationShow \/ FamiliarizationBackToPre
    \/ FamiliarizationContinue \/ FamiliarizationBack
    \/ QuestionnaireNext \/ PanelBackToForm \/ PanelProceed

SpecFamiliarization == FamiliarizationInit /\ [][FamiliarizationNext]_vars

\* the step is a practice submission that passed the validation
ValidPracticeStep ==
    /\ ss_handler'.name = "continue"
    /\ ~fa_result'.raised /\ fa_result'.errors = <<>>

-----------------------------------------------------------------------------
(* Specification of two browser sessions that are in the rating loop at    *)
(* the same time. Each script run is one step; the sessions share the two  *)
(* rating stores and nothing else.                                         *)

\* the two sessions
Raters == {1, 2}

\* the participant of each session
RaterOf(p) == IF p = 1 THEN UCD34 ELSE UZZ99

\* a faulty variant: the last video of the list is shown
ShownVideoLast(videos, current_video_index) == videos[Len(videos)]

\* "current_video = videos[current_video_index]" (videoplayer.py line 248)
ShownVideo(videos, current_video_index) == videos[current_video_index + 1]

ConcurrentInit ==
    /\ config \in { Settings(m, k, 0) : m \in StorageModes, k \in {1, 2} }
    /\ \E ids \in { <<>>, <<E1>> } :
          /\ user_ratings = RatedBefore(config.storage_mode, <<>>, NoDir, ids).dir
          /\ ws_ratings = RatedBefore(config.storage_mode, <<>>, NoDir, ids).ws
    /\ user_data = Registered(config.storage_mode).dir
    /\ ws_users = Registered(config.storage_mode).ws
    /\ SamplerIdle /\ ValidatorIdle /\ PersistIdle /\ SessionIdle /\ IdIdle
    /\ FamiliarizationIdle /\ AppendIdle
    /\ cc_pc = [p \in Raters |-> "entered"]
    /\ cc_videos = [p \in Raters |-> <<>>]
    /\ cc_index = [p \in Raters |-> 0]
    /\ cc_last = NoRun

\* videoplayer.show of session p, first script run: initialize_video_player
\* (lines 231-247, 401-512)
InitializeLoop(p) ==
    /\ cc_pc[p] = "entered"
    /\ \E read_fault \in BOOLEAN :
         \E videos \in InitializeVideoPlayer(config, AllVideos, MetaNone, ws_ratings,
                                             user_ratings, RaterOf(p), read_fault) :
            /\ cc_videos' = [cc_videos EXCEPT ![p] = videos]
            /\ cc_index' = [cc_index EXCEPT ![p] = 0]
            /\ cc_pc' = [cc_pc EXCEPT ![p] = IF NothingLeft(videos, 0)
                                             THEN "completion" ELSE "rating"]
    /\ cc_last' = [NoRun EXCEPT !.session = p, !.op = "initialize_video_player"]
    /\ UNCHANGED <<stVars, smVars, vaVars, peVars, ssVars, idVars, faVars, apVars>>

\* display_rating_interface of session p, "Submit Rating" with valid values
\* (lines 550-579), and the script run that follows it (lines 240-247)
SubmitInLoop(p) ==
    /\ cc_pc[p] = "rating"
    /\ LET current_video == ShownVideo(cc_videos[p], cc_index[p])
           action_id == SplitExt(current_video)
           scale_values == << Item(TWinLoss, Str("Win")) >>
       IN  \E remote_fault \in RemoteFaultsFor(config.storage_mode) \ {"row"},
              local_fault \in LocalFaultsFor(config.storage_mode) \ {"dump"} :
            \E new_order \in NewKeyOrders(ws_ratings,
                                RatingData(RaterOf(p), action_id, scale_values, TRUE)) :
              LET r == SaveRating(config.storage_mode, ws_ratings, user_ratings,
                                  RaterOf(p), action_id, scale_values, TRUE,
                                  remote_fault, local_fault, new_order)
                  index == AdvancedIndex(cc_index[p], r.ret)
              IN  /\ ws_ratings' = r.ws
                  /\ user_ratings' = r.dir
                  /\ cc_index' = [cc_index EXCEPT ![p] = index]
                  /\ cc_pc' = [cc_pc EXCEPT ![p] = IF NothingLeft(cc_videos[p], index)
                                                   THEN "completion" ELSE "rating"]
                  /\ cc_last' = [session |-> p, op |-> "submit",
                                 action_id |-> action_id, ret |-> r.ret]
    /\ UNCHANGED <<cc_videos, config, user_data, ws_users, smVars, vaVars, peVars, ssVars,
                   idVars, faVars, apVars>>

ConcurrentNext == \E p \in Raters : InitializeLoop(p) \/ SubmitInLoop(p)

SpecConcurrent == ConcurrentInit /\ [][ConcurrentNext]_vars

\* the participants with a persisted rating of video `id`
RatersOfVideo(id) ==
    { u \in {UAB12, UCD34, UZZ99} : RatedInSheet(u, id) \/ RatedInFiles(u, id) }

\* the step is a Submit of session p that was saved
SavedSubmitOf(p) == cc_index'[p] = cc_index[p] + 1

\* C24: sessions are not coordinated. The list of a session is computed at
\* its initialisation and no script run of any session changes it afterwards;
\* a saved Submit stores a rating of the video at the session's index of that
\* list, whatever the number of ratings that video has by then.
C24_SessionsNotCoordinated ==
    [][\A p \in Raters :
          /\ cc_pc[p] # "entered" => cc_videos'[p] = cc_videos[p]
          /\ SavedSubmitOf(p) =>
                \A id \in {VideoId(cc_videos[p][cc_index[p] + 1])} :
                    /\ cc_last'.action_id = id /\ cc_last'.ret
                    /\ RatersOfVideo(id)' = RatersOfVideo(id) \cup {RaterOf(p)}]_vars

\* local files, where the count filter reads: both sessions were initialised
\* before either saved, both rated the video that was one rating short, and
\* the video now has more than min_ratings_per_video ratings
C24_Witness ==
    /\ config.storage_mode = "local"
    /\ {UCD34, UZZ99} \subseteq RatersOfVideo(E1)
    /\ Cardinality(RatersOfVideo(E1)) > config.min_ratings_per_video

-----------------------------------------------------------------------------
(* Specification of two calls of append_rating_to_gsheets on the same      *)
(* worksheet, made by two sessions at the same time. Each request to the   *)
(* sheet (get_all_values, update, append_row) is one step.                 *)

\* the two calls
Appenders == {1, 2}

\* the scale rated in each session
AppendScales == { <<"joy">>, <<"fear">>, <<"calm">> }

\* rating_data_with_timestamp of a call (lines 97-98)
AppendRecord(p, scale) ==
    WithTimestamp(RatingData(RaterOf(p), E1, << Item(scale, Num(50)) >>, FALSE))

\* the worksheet before the two calls: never written, or written by an
\* earlier rating without a scale or with the scale "joy"
AppendSheets ==
    { <<>>,
      AppendToGsheets(<<>>, RatingData(UAB12, E1, <<>>, FALSE), "none", <<>>).ws,
      AppendToGsheets(<<>>, RatingData(UAB12, E1, << Item(<<"joy">>, Num(0)) >>, FALSE),
                      "none", <<>>).ws }

AppendInit ==
    /\ config = Settings("online", 1, 0)
    /\ user_ratings = NoDir /\ user_data = NoDir /\ ws_users = <<>>
    /\ ws_ratings \in AppendSheets
    /\ SamplerIdle /\ ValidatorIdle /\ PersistIdle /\ SessionIdle /\ IdIdle
    /\ FamiliarizationIdle /\ ConcurrentIdle
    /\ ap_pc = [p \in Appenders |-> "start"]
    /\ ap_record \in { [p \in Appenders |-> AppendRecord(p, scales[p])] :
                         scales \in { f \in [Appenders -> AppendScales] : f[1] # f[2] } }
    /\ ap_existing = [p \in Appenders |-> <<>>]

\* "existing_data = ws.get_all_values()" (line 116)
GetAllValues(p) ==
    /\ ap_pc[p] = "start"
    /\ ap_existing' = [ap_existing EXCEPT ![p] = ws_ratings]
    /\ ap_pc' = [ap_pc EXCEPT ![p] = "read"]
    /\ UNCHANGED <<ap_record, stVars, smVars, vaVars, peVars, ssVars, idVars, faVars, ccVars>>

\* lines 118, 128-131: whether the sheet was read as empty, and whether the
\* record has keys the header read does not hold
ReadAsEmpty(existing_data) ==
    Len(existing_data) = 0 \/ (Len(existing_data) = 1 /\ existing_data[1] = <<>>)
HeaderDiffers(existing_data, record) == Range(Keys(record)) # Range(existing_data[1])

\* lines 135-136: all_columns, for the header as it was read
AllColumns(existing_data, record) ==
    existing_data[1] \o SelectSeq(Keys(record), LAMBDA k : k \notin Range(existing_data[1]))

\* ws.update('1:1', [all_columns]): the cells of row 1 from the first column
\* on are overwritten, cells further right are left as they are
UpdateRow1(ws, all_columns) ==
    IF ws = <<>> THEN << all_columns >>
    ELSE [ws EXCEPT ![1] = all_columns \o SubSeq(ws[1], Len(all_columns) + 1, Len(ws[1]))]

\* the first request that writes: "ws.append_row(headers)" (line 123) on a
\* sheet read as empty, "ws.update('1:1', ...)" (line 139) for new columns;
\* no request when the header read holds every key
WriteHeader(p) ==
    /\ ap_pc[p] = "read"
    /\ ws_ratings' =
          IF ReadAsEmpty(ap_existing[p]) THEN Append(ws_ratings, Keys(ap_record[p]))
          ELSE IF HeaderDiffers(ap_existing[p], ap_record[p])
          THEN UpdateRow1(ws_ratings, AllColumns(ap_existing[p], ap_record[p]))
          ELSE ws_ratings
    /\ ap_pc' = [ap_pc EXCEPT ![p] = "header"]
    /\ UNCHANGED <<ap_record, ap_existing, config, user_ratings, user_data, ws_users,
                   smVars, vaVars, peVars, ssVars, idVars, faVars, ccVars>>

\* values (line 121) and row_values (lines 142, 145)
RowValues(existing_data, record) ==
    IF ReadAsEmpty(existing_data) THEN [i \in 1..Len(record) |-> record[i].value]
    ELSE IF HeaderDiffers(existing_data, record)
    THEN RowFor(AllColumns(existing_data, record), record)
    ELSE RowFor(existing_data[1], record)

\* "ws.append_row(values)" (line 124) and "ws.append_row(row_values)" (line 148)
AppendRow(p) ==
    /\ ap_pc[p] = "header"
    /\ ws_ratings' = Append(ws_ratings, RowValues(ap_existing[p], ap_record[p]))
    /\ ap_pc' = [ap_pc EXCEPT ![p] = "done"]
    /\ UNCHANGED <<ap_record, ap_existing, config, user_ratings, user_data, ws_users,
                   smVars, vaVars, peVars, ssVars, idVars, faVars, ccVars>>

AppendNext == \E p \in Appenders : GetAllValues(p) \/ WriteHeader(p) \/ AppendRow(p)

SpecAppend == AppendInit /\ [][AppendNext]_vars

\* the row holds each value of the record under the header column named by
\* the key
RowHolds(header, row, record) ==
    \A i \in 1..Len(record) :
        /\ record[i].key \in Range(header)
        /\ IndexOf(header, record[i].key) <= Len(row)
        /\ row[IndexOf(header, record[i].key)] = record[i].value

\* C29: when both calls have returned, the worksheet has for each of the two
\* records a row below the header that holds each of its values under the
\* header column named by the key; in particular the header holds every
\* column either call has written.
C29_InterleavedAppendsKeepColumns ==
    (\A p \in Appenders : ap_pc[p] = "done") =>
        \A p \in Appenders :
            \E r \in 2..Len(ws_ratings) : RowHolds(ws_ratings[1], ws_ratings[r], ap_record[p])

-----------------------------------------------------------------------------
(* User ids: src/utils/user.py, src/utils/data_persistence.py,             *)
(* src/utils/gsheets_manager.py. A generated id is a sequence of six       *)
(* characters; the alphabet is cut down to two letters and one digit.      *)

Letters == {"A", "B"}
Digits  == {"0"}

\* ''.join(random.choices(string.ascii_uppercase, k=4))
\*   + ''.join(random.choices(string.digits, k=2))
CandidateIds == { l \o d : l \in [1..4 -> Letters], d \in [1..2 -> Digits] }

\* max_attempts = 1000
max_attempts == 1000

\* a faulty variant of the test: every candidate is accepted
IsNewAlways(new_id, existing_user_ids) == TRUE

\* "if new_id not in existing_user_ids"
IsNew(new_id, existing_user_ids) == new_id \notin existing_user_ids

\* generate_random_user_id: the ids a call can return
GenerateRandomUserId(existing_user_ids) ==
    { new_id \in CandidateIds : IsNew(new_id, existing_user_ids) }

\* get_all_user_ids_from_gsheets: an unreadable or empty sheet gives none
AllUserIdsFromGsheets(ws, read_fault) ==
    IF read_fault \/ Len(ws) < 2 \/ <<"user_id">> \notin Range(ws[1]) THEN {}
    ELSE { Cell(ws, r, <<"user_id">>).s :
             r \in { q \in 2..Len(ws) : Cell(ws, q, <<"user_id">>) # Str("") } }

\* get_all_existing_user_ids
GetAllExistingUserIds(ws, data_dir, read_fault) ==
    AllUserIdsFromGsheets(ws, read_fault)
        \cup (IF data_dir.exists
              THEN { Remove(f.name, ".json") :
                       f \in { g \in data_dir.files : EndsWith(g.name, ".json") } }
              ELSE {})

-----------------------------------------------------------------------------
(* Specification of the registration of new participants: two browser      *)
(* sessions, each of which has an id generated against the ids on record   *)
(* ("Generate User ID"), shows it on the confirmation panel and saves the  *)
(* user record on "Understood. Proceed".                                   *)

Sessions == {1, 2}

RegisterInit ==
    /\ config \in { Settings(m, 1, 0) : m \in StorageModes }
    /\ user_ratings = NoDir /\ user_data = NoDir
    /\ ws_ratings = <<>> /\ ws_users = <<>>
    /\ rg_pc = [p \in Sessions |-> "form"]
    /\ rg_user_id = [p \in Sessions |-> <<>>]
    /\ GenerateIdle /\ ExIdle
    /\ SamplerIdle /\ ValidatorIdle /\ PersistIdle /\ SessionIdle

\* "Generate User ID": user.generate_random_user_id(get_all_existing_user_ids())
GenerateUserId(p) ==
    /\ rg_pc[p] = "form"
    /\ \E read_fault \in BOOLEAN :
          \E new_id \in GenerateRandomUserId(
                            GetAllExistingUserIds(ws_users, user_data, read_fault)) :
             rg_user_id' = [rg_user_id EXCEPT ![p] = new_id]
    /\ rg_pc' = [rg_pc EXCEPT ![p] = "confirm"]
    /\ UNCHANGED <<gnVars, exVars, smVars, vaVars, stVars, peVars, ssVars>>

\* show_confirmation_panel, "Back to Form" (lines 221-223)
ConfirmBackToForm(p) ==
    /\ rg_pc[p] = "confirm"
    /\ rg_pc' = [rg_pc EXCEPT ![p] = "form"]
    /\ UNCHANGED <<rg_user_id, gnVars, exVars, smVars, vaVars, stVars, peVars, ssVars>>

\* show_confirmation_panel, "Understood. Proceed" (lines 226-240); the
\* backends fail before they write anything, or not at all
ConfirmProceed(p) ==
    /\ rg_pc[p] = "confirm"
    /\ \E remote_fault \in RemoteFaultsFor(config.storage_mode) \ {"row"},
          local_fault \in LocalFaultsFor(config.storage_mode) \ {"dump"} :
          LET r == SaveUserData(config.storage_mode, ws_users, user_data,
                                Participant(rg_user_id[p]), TRUE,
                                remote_fault, local_fault, <<>>)
          IN  /\ ws_users' = r.ws
              /\ user_data' = r.dir
              /\ rg_pc' = [rg_pc EXCEPT ![p] = IF r.ret THEN "saved" ELSE "confirm"]
    /\ UNCHANGED <<rg_user_id, config, user_ratings, ws_ratings,
                   gnVars, exVars, smVars, vaVars, peVars, ssVars>>

RegisterNext ==
    \E p \in Sessions : GenerateUserId(p) \/ ConfirmBackToForm(p) \/ ConfirmProceed(p)

SpecRegister == RegisterInit /\ [][RegisterNext]_vars

\* no two participants have their record persisted under one user id
NoSharedPersistedId ==
    \A p, q \in Sessions :
        (p # q /\ rg_pc[p] = "saved" /\ rg_pc[q] = "saved")
            => rg_user_id[p] # rg_user_id[q]

\* an id issued in this step is not one persisted for another participant
IssuedIdIsFresh ==
    \A p, q \in Sessions :
        (p # q /\ rg_user_id'[p] # rg_user_id[p] /\ rg_pc[q] = "saved")
            => rg_user_id'[p] # rg_user_id[q]

-----------------------------------------------------------------------------
(* Specification of one call of User.generate_random_user_id, one loop     *)
(* iteration per step                                                      *)

\* the lists handed in as existing_user_ids: none on record, all candidates
\* but one, all but two, and every candidate
ExistingIdSets ==
    { {}, CandidateIds,
      CandidateIds \ { <<"A", "B", "A", "B", "0", "0">> },
      CandidateIds \ { <<"A", "B", "A", "B", "0", "0">>, <<"B", "B", "B", "B", "0", "0">> } }

GenerateInit ==
    /\ gn_pc = "loop"
    /\ gn_existing \in ExistingIdSets
    /\ gn_attempts = 0
    /\ gn_user_id = <<>>
    /\ gn_returned = <<>>
    /\ RegisterIdle /\ ExIdle
    /\ SamplerIdle /\ ValidatorIdle /\ StoresIdle /\ PersistIdle /\ SessionIdle

\* one iteration of "while attempts < max_attempts" (lines 41-54)
Attempt ==
    /\ gn_pc = "loop"
    /\ gn_attempts < max_attempts
    /\ \E new_id \in CandidateIds :
          IF IsNew(new_id, gn_existing)
          THEN /\ gn_user_id' = new_id
               /\ gn_returned' = new_id
               /\ gn_pc' = "returned"
               /\ UNCHANGED gn_attempts
          ELSE /\ gn_attempts' = gn_attempts + 1
               /\ UNCHANGED <<gn_user_id, gn_returned, gn_pc>>
    /\ UNCHANGED <<gn_existing, rgVars, exVars, smVars, vaVars, stVars, peVars, ssVars>>

\* line 57: raise Exception("Failed to generate unique user ID ...")
RaiseAfterLastAttempt ==
    /\ gn_pc = "loop"
    /\ ~(gn_attempts < max_attempts)
    /\ gn_pc' = "raised"
    /\ UNCHANGED <<gn_existing, gn_attempts, gn_user_id, gn_returned,
                   rgVars, exVars, smVars, vaVars, stVars, peVars, ssVars>>

GenerateNext == Attempt \/ RaiseAfterLastAttempt

SpecGenerate == GenerateInit /\ [][GenerateNext]_vars

UppercaseLetters ==
    {"A", "B", "C", "D", "E", "F", "G", "H", "I", "J", "K", "L", "M",
     "N", "O", "P", "Q", "R", "S", "T", "U", "V", "W", "X", "Y", "Z"}

DecimalDigits == {"0", "1", "2", "3", "4", "5", "6", "7", "8", "9"}

\* four uppercase letters followed by two digits
FourLettersTwoDigits(id) ==
    /\ Len(id) = 6
    /\ \A i \in 1..4 : id[i] \in UppercaseLetters
    /\ \A i \in 5..6 : id[i] \in DecimalDigits

\* C12: generate_random_user_id(existing) returns an id of four uppercase
\* letters and two digits that is not in `existing` and stores it in user_id;
\* it stops within 1000 attempts, and raises, leaving user_id as it was, only
\* after 1000 candidates that were all in `existing`.
C12_GeneratedIdIsNew ==
    /\ gn_attempts <= 1000
    /\ gn_pc = "returned" =>
          /\ FourLettersTwoDigits(gn_returned)
          /\ gn_returned \notin gn_existing
          /\ gn_user_id = gn_returned
          /\ gn_attempts < 1000
    /\ gn_pc = "raised" =>
          /\ gn_attempts = 1000
          /\ gn_user_id = <<>> /\ gn_returned = <<>>
          /\ gn_existing \cap CandidateIds # {}

\* an id returned after candidates that were on record had been drawn
C12_Witness ==
    /\ gn_pc = "returned" /\ gn_attempts > 1
    /\ gn_returned \notin gn_existing /\ gn_user_id = gn_returned

=============================================================================
